---- MODULE Spec2Model ----
(***************************************************************************)
(* tncexporter: the TNC listener (listener.py) and the metrics aggregator  *)
(* (exporter.py) as one state machine.  One asyncio event loop runs two    *)
(* tasks, Listener.receive_packets and TNCExporter.metric_updater; they    *)
(* share Listener.packet_queue.  Code between two awaits runs without      *)
(* interleaving of the other task; the TNC (the environment) acts at any   *)
(* time.  A byte of the stream is a pair <<value, w>>: its value and the   *)
(* number w of the wire frame (TNC transmission) it belongs to; w is       *)
(* bookkeeping the code does not see.                                      *)
(***************************************************************************)
EXTENDS Integers, Sequences, FiniteSets, TLC

\* ---------------------------------------------------------------- bounds
MaxFrames == 2      \* wire frames the TNC transmits in one behaviour
MaxResets == 2      \* times the TNC closes or resets a connection
MaxCycles == 3      \* aggregator cycles in one behaviour
ShortRead == 20     \* the size of a recv that returns less than what has arrived
MaxRefusals == 2    \* refusals in a row that are told apart (more are possible)
MaxQueued == 2      \* RawFrames queued when the aggregator is taken on its own
StatsInterval == 1  \* stats_interval, in ticks of the clock
MaxElapsed == 2     \* the most ticks a cycle takes from its start to its sleep
MaxStops == 2       \* calls of stop() that run to their end

\* ------------------------------------------------------ program constants
HeaderLen == 36     \* listener.py:62 and :118, exporter.py:199
RecvMax == 4096     \* listener.py:63 and :120
DELIM == 192        \* 0xC0, listener.py:139
chr_R == 82         \* 'R', listener.py:68 (and byte 4 of VERSION_REQUEST)
chr_m == 109        \* 0x6D, byte 4 of MONITOR_REQUEST, listener.py:19
chr_T == 84         \* 'T', exporter.py:335
chr_U == 85         \* 'U', an unnumbered frame as the TNC reports it

\* Python's None, and a value that may be None: None or Some(v)
None == [i \in {0} |-> 0]

Some(v) == <<v>>

\* ------------------------------------------------------------- sequences
Min(a, b) == IF a < b THEN a ELSE b

Take(s, n) == SubSeq(s, 1, n)

Drop(s, n) == SubSeq(s, n + 1, Len(s))

\* the values of a sequence of stream bytes
Values(bs) == [i \in 1..Len(bs) |-> bs[i][1]]

\* the wire frames a sequence of stream bytes comes from
Wires(bs) == {bs[i][2] : i \in 1..Len(bs)}

\* Python's s.split(d) for a one-byte d, as the index ranges <<lo, hi>> of the
\* segments of vals between delimiters (an empty segment has hi = lo - 1)
RECURSIVE SplitRanges(_, _, _, _)
SplitRanges(vals, d, lo, i) ==
    IF i > Len(vals) THEN << <<lo, Len(vals)>> >>
    ELSE IF vals[i] = d THEN << <<lo, i - 1>> >> \o SplitRanges(vals, d, i + 1, i + 1)
    ELSE SplitRanges(vals, d, lo, i + 1)

\* s.split(d) on plain values
SplitVals(vals, d) ==
    LET r == SplitRanges(vals, d, 1, 1) IN
    [k \in 1..Len(r) |-> SubSeq(vals, r[k][1], r[k][2])]

\* s.split(d) on stream bytes: the segments keep their bytes' bookkeeping
split(bs, d) ==
    LET r == SplitRanges(Values(bs), d, 1, 1) IN
    [k \in 1..Len(r) |-> SubSeq(bs, r[k][1], r[k][2])]

MinOf(S) == CHOOSE x \in S : \A y \in S : x <= y

MaxOf(S) == CHOOSE x \in S : \A y \in S : x >= y

\* Python's s[a:b] (0-based, half-open, clipped to the length)
Slice(s, a, b) == SubSeq(s, a + 1, Min(b, Len(s)))

\* Python's s.strip(b'\x00')
strip0(s) ==
    LET nz == {i \in 1..Len(s) : s[i] # 0} IN
    IF nz = {} THEN <<>> ELSE SubSeq(s, MinOf(nz), MaxOf(nz))

\* bytes.decode("ascii") succeeds
IsAscii(s) == \A i \in 1..Len(s) : s[i] < 128

\* ------------------------------------------------------ what the TNC sends
\* a 36-byte AGW header whose byte 4 is t (all else zero)
AgwHeader(t) == [i \in 1..HeaderLen |-> IF i = 5 THEN t ELSE 0]

\* "25:10:10": a time token the time pattern accepts and datetime.time rejects
TimeText25 == <<50, 53, 58, 49, 48, 58, 49, 48>>

\* "12:10:10"
TimeText12 == <<49, 50, 58, 49, 48, 58, 49, 48>>

\* the monitor frames the TNC transmits in a behaviour, by kind
WireFrame(kind) ==
    CASE kind = "rx" -> AgwHeader(chr_U)
      [] kind = "tx" -> AgwHeader(chr_T) \o TimeText12
      [] kind = "rx25" -> AgwHeader(chr_U) \o TimeText25

Kinds == {"rx", "tx", "rx25"}

\* a callsign of six characters and its SSID octet as AX.25 sends them
Ax25Address(cs, ssid) == [i \in 1..7 |-> IF i = 7 THEN ssid ELSE 2 * cs[i]]

\* a KISS data frame: delimiter, command 0, destination, source, control and
\* PID 03 f0, the information field, delimiter
KissData(info) ==
    <<DELIM, 0>> \o Ax25Address(<<65, 80, 82, 83, 32, 32>>, 96)
                 \o Ax25Address(<<78, 48, 67, 65, 76, 76>>, 97)
                 \o <<3, 240>> \o info \o <<DELIM>>

\* the frames a KISS TNC transmits, by kind: a short data frame, a frame that
\* is no data frame (command 6), a data frame of more than 36 bytes
KissFrame(kind) ==
    CASE kind = "rx" -> KissData(<<62, 104, 105>>)
      [] kind = "tx" -> <<DELIM, 6, 1, DELIM>>
      [] kind = "rx25" -> KissData(<<62>> \o TimeText25 \o TimeText12 \o <<13>>)

\* the TNC's answers to the version request: a version reply ('R' in byte 4,
\* 8 bytes of version after the header) or the bytes of another protocol
VersionReply(good) ==
    AgwHeader(IF good THEN chr_R ELSE chr_U) \o <<5, 0, 0, 0, 2, 0, 0, 0>>

Tagged(vals, w) == [i \in 1..Len(vals) |-> <<vals[i], w>>]

\* "!3419.82N/11836.06W": a position report in plain text
PositionText1 == <<33, 51, 52, 49, 57, 46, 56, 50, 78, 47, 49, 49, 56, 51, 54, 46, 48, 54, 87>>

\* "!3600.00N/11500.00W"
PositionText2 == <<33, 51, 54, 48, 48, 46, 48, 48, 78, 47, 49, 49, 53, 48, 48, 46, 48, 48, 87>>

\* "Via N6EX <": the path of a frame repeated by the digipeater N6EX
ViaText == <<86, 105, 97, 32, 78, 54, 69, 88, 32, 60>>

\* AGW monitor frames as RawFrames of the queue, by what the aggregator makes
\* of them: received or transmitted, with or without a position, heard
\* directly or through a digipeater, and one whose decoding raises
QueuedFrames ==
    { AgwHeader(chr_U),
      AgwHeader(chr_T) \o TimeText12,
      AgwHeader(chr_U) \o PositionText1,
      AgwHeader(chr_U) \o PositionText2,
      AgwHeader(chr_U) \o ViaText \o PositionText1,
      AgwHeader(chr_U) \o ViaText \o PositionText2,
      AgwHeader(chr_T) \o PositionText1,
      AgwHeader(chr_U) \o TimeText25 }

\* ---------------------------------------------------------------- decoder
\* text is a sequence of character codes; a result of a decode is either an
\* exception that leaves the function or a PacketInfo
Raised(name) == [raised |-> name, info |-> None]

Returned(info) == [raised |-> "", info |-> info]

IsDigit(c) == c \in 48..57

\* str.upper() of one ASCII character
Upper(c) == IF c \in 97..122 THEN c - 32 ELSE c

\* the number a run of decimal digits spells
RECURSIVE DigitsValue(_)
DigitsValue(ds) ==
    IF ds = <<>> THEN 0
    ELSE 10 * DigitsValue(Take(ds, Len(ds) - 1)) + (ds[Len(ds)] - 48)

\* "[0-2][0-9]:[0-5][0-9]:[0-5][0-9]" matches at position i
TimeAt(s, i) ==
    /\ i + 7 <= Len(s)
    /\ s[i] \in 48..50 /\ IsDigit(s[i + 1]) /\ s[i + 2] = 58
    /\ s[i + 3] \in 48..53 /\ IsDigit(s[i + 4]) /\ s[i + 5] = 58
    /\ s[i + 6] \in 48..53 /\ IsDigit(s[i + 7])

\* re.search of the time pattern: the position of the leftmost match, or None
TimeSearch(s) ==
    LET I == {i \in 1..Len(s) : TimeAt(s, i)} IN
    IF I = {} THEN None ELSE Some(MinOf(I))

\* datetime.time(hour, minute, second) raises ValueError unless hour is in 0..23
TimeValid(h, m, sec) == h \in 0..23 /\ m \in 0..59 /\ sec \in 0..59

\* the tuple of path types that are no digipeater hops (exporter.py 218-225)
path_types ==
    { <<82, 69, 76, 65, 89>>,         \* RELAY
      <<69, 67, 72, 79>>,             \* ECHO
      <<84, 82, 65, 67, 69>>,         \* TRACE
      <<71, 65, 84, 69>>,             \* GATE
      <<66, 69, 65, 67, 79, 78>>,     \* BEACON
      <<65, 82, 73, 83, 83>>,         \* ARISS
      <<82, 70, 79, 78, 76, 89>>,     \* RFONLY
      <<78, 79, 71, 65, 84, 69>> }    \* NOGATE

\* re.fullmatch("^WIDE(\b|([0-9]-[0-9])|[0-9])", h): in the non-raw Python
\* string \b is the backspace character, code 8
WideMatch(h) ==
    /\ Len(h) >= 5
    /\ Take(h, 4) = <<87, 73, 68, 69>>
    /\ \/ Len(h) = 5 /\ (h[5] = 8 \/ IsDigit(h[5]))
       \/ Len(h) = 7 /\ IsDigit(h[5]) /\ h[6] = 45 /\ IsDigit(h[7])

\* "(?:Via )(.*?)(?: <)" matches from i with its " <" at j ('.' is no newline)
ViaMatch(s, i, j) ==
    /\ i + 3 <= Len(s)
    /\ SubSeq(s, i, i + 3) = <<86, 105, 97, 32>>
    /\ j >= i + 4 /\ j + 1 <= Len(s)
    /\ s[j] = 32 /\ s[j + 1] = 60
    /\ \A k \in (i + 4)..(j - 1) : s[k] # 10

\* re.findall(...)[0]: the text between the first "Via " and the next " <";
\* None when there is no match (the IndexError the code catches)
HopsString(s) ==
    LET I == {i \in 1..Len(s) : \E j \in 1..Len(s) : ViaMatch(s, i, j)} IN
    IF I = {} THEN None
    ELSE LET i == MinOf(I)
             j == MinOf({k \in 1..Len(s) : ViaMatch(s, i, k)})
         IN Some(SubSeq(s, i + 4, j - 1))

\* the hops that are neither a path type nor a WIDE token (exporter.py 230-231)
IsHop(h) == h \notin path_types /\ ~WideMatch(h)

HopsOf(s) ==
    LET hs == HopsString(s) IN
    IF hs = None THEN <<>>
    ELSE SelectSeq(SplitVals(hs[1], 44), IsHop)

\* the plaintext position pattern matches at i with gaps of a, b and c characters
IsGapChar(c) == IsDigit(c) \/ c = 44

LatLonMatch(s, i, a, b, c) ==
    LET d1 == i + 7 + a          \* N or S
        p == d1 + 1 + b          \* the longitude digits
        d2 == p + 8 + c          \* E or W
    IN /\ d2 <= Len(s)
       /\ \A k \in i..(i + 3) : IsDigit(s[k])
       /\ s[i + 4] = 46 /\ IsDigit(s[i + 5]) /\ IsDigit(s[i + 6])
       /\ \A k \in (i + 7)..(d1 - 1) : IsGapChar(s[k])
       /\ s[d1] \in {78, 83}
       /\ \A k \in (d1 + 1)..(p - 1) : s[k] # 10
       /\ s[p] \in {48, 49}
       /\ \A k \in (p + 1)..(p + 4) : IsDigit(s[k])
       /\ s[p + 5] = 46 /\ IsDigit(s[p + 6]) /\ IsDigit(s[p + 7])
       /\ \A k \in (p + 8)..(d2 - 1) : IsGapChar(s[k])
       /\ s[d2] \in {69, 87}

\* the Mic-E decode of aprspy, for a packet that is no Mic-E position report:
\* ParseError, which leaves both coordinates None (exporter.py 68-74)
mice_decode(dest_field, data_field) == <<None, None>>

\* variant: the direction letter is not looked at
CoordinateUnsigned(digits, negative) == DigitsValue(SelectSeq(digits, IsDigit))

\* round(float(raw) / 100, 4) in units of 1e-4 degree: the digits of DDMM.mm
\* read as one integer
Coordinate(digits, negative) ==
    LET v == DigitsValue(SelectSeq(digits, IsDigit)) IN
    IF negative THEN 0 - v ELSE v

\* parse_coordinates: re.search is leftmost, its gaps greedy
parse_coordinates(dest_field, data_field) ==
    LET s == data_field
        I == {i \in 1..Len(s) : \E a \in 0..5, b \in 0..2, c \in 0..5 :
                                   LatLonMatch(s, i, a, b, c)}
    IN IF I = {} THEN mice_decode(dest_field, data_field)
       ELSE LET i == MinOf(I)
                a == MaxOf({x \in 0..5 : \E b \in 0..2, c \in 0..5 :
                                           LatLonMatch(s, i, x, b, c)})
                b == MaxOf({x \in 0..2 : \E c \in 0..5 :
                                           LatLonMatch(s, i, a, x, c)})
                p == i + 7 + a + 1 + b
            IN << Some(Coordinate(SubSeq(s, i, i + 6), s[i + 7 + a] = 83)),
                  Some(Coordinate(SubSeq(s, p, p + 7),
                                  \A c \in 0..5 : LatLonMatch(s, i, a, b, c)
                                                  => s[p + 8 + c] = 87)) >>

\* variant: the count tells only whether there was a hop
HopsCountDigi(hops) == IF hops = <<>> THEN 0 ELSE 1

\* hops_count=len(hops) (exporter.py 245 and 287, parser.py 146 and 186)
HopsCount(hops) == Len(hops)

\* int.from_bytes(b, byteorder="little", signed=False)
RECURSIVE FromBytesLittle(_)
FromBytesLittle(b) ==
    IF b = <<>> THEN 0 ELSE b[1] + 256 * FromBytesLittle(Tail(b))

\* bytes.strip(b'\x00').decode("ascii"), None on UnicodeDecodeError
Callsign(b) == IF IsAscii(strip0(b)) THEN Some(strip0(b)) ELSE None

\* TNCExporter.parse_packet_agw
parse_packet_agw(raw_packet) ==
    IF Len(raw_packet) < 5 THEN Raised("IndexError")
    ELSE
    LET data == strip0(Slice(raw_packet, HeaderLen, Len(raw_packet)))
        t == TimeSearch(data)
        h == DigitsValue(SubSeq(data, t[1], t[1] + 1))
        m == DigitsValue(SubSeq(data, t[1] + 3, t[1] + 4))
        sec == DigitsValue(SubSeq(data, t[1] + 6, t[1] + 7))
        call_to == Callsign(Slice(raw_packet, 18, 28))
        base == [frame_type |-> Some(Upper(raw_packet[5])),
                 data_len |-> FromBytesLittle(Slice(raw_packet, 28, 32)),
                 call_from |-> Callsign(Slice(raw_packet, 8, 18)),
                 call_to |-> call_to,
                 timestamp |-> None,
                 hops_count |-> HopsCount(<<>>),
                 hops_path |-> <<>>,
                 lat_lon |-> <<None, None>>]
    IN IF ~IsAscii(data) THEN Returned(base)
       ELSE IF t # None /\ ~TimeValid(h, m, sec) THEN Raised("ValueError")
       ELSE Returned([base EXCEPT
                !.timestamp = IF t = None THEN None ELSE Some(<<h, m, sec>>),
                !.hops_path = HopsOf(data),
                !.hops_count = HopsCount(HopsOf(data)),
                !.lat_lon = parse_coordinates(call_to, data)])

\* chr(b >> 1) for each byte
Shifted(b) == [i \in 1..Len(b) |-> b[i] \div 2]

\* variant: every command byte is taken for a data frame
NotDataFrameNever(packet) == FALSE

\* hex(packet[0]) != "0x0": the command byte is not that of a data frame
\* (exporter.py 271)
NotDataFrame(packet) == packet[1] # 0

\* TNCExporter.parse_packet_kiss
parse_packet_kiss(raw_packet) ==
    IF raw_packet = <<>> THEN Raised("IndexError")
    ELSE IF raw_packet[1] # DELIM /\ raw_packet[Len(raw_packet)] # DELIM
    THEN Raised("ValueError")
    ELSE
    LET nd == {i \in 1..Len(raw_packet) : raw_packet[i] # DELIM}
        packet == IF nd = {} THEN <<>>
                  ELSE SubSeq(raw_packet, MinOf(nd), MaxOf(nd))
        rest == Slice(packet, 14, Len(packet))
        marks == {i \in 1..(Len(rest) - 1) : rest[i] = 3 /\ rest[i + 1] = 240}
        data_bytes == SubSeq(rest, MinOf(marks) + 2, Len(rest))
        call_to == Shifted(Slice(packet, 1, 7))
    IN IF packet = <<>> THEN Raised("IndexError")
       ELSE IF NotDataFrame(packet) THEN Raised("ValueError")
       \* the split on 03 f0 must give exactly two parts to unpack
       ELSE IF Cardinality(marks) # 1 THEN Raised("ValueError")
       ELSE IF ~IsAscii(data_bytes) THEN Raised("UnicodeDecodeError")
       ELSE Returned([frame_type |-> None,
                      data_len |-> Len(data_bytes),
                      call_from |-> Some(Shifted(Slice(packet, 8, 14))),
                      call_to |-> Some(call_to),
                      timestamp |-> None,
                      hops_count |-> HopsCount(<<>>),
                      hops_path |-> <<>>,
                      lat_lon |-> parse_coordinates(call_to, data_bytes)])

\* ------------------------------------------- PacketInfo of parser.py
\* the string 'Unknown', the frame_type a PacketInfo of parser.py starts with
Unknown == Some(0 - 1)

\* bytes.decode("ascii", errors="replace"): U+FFFD for every byte over 127
DecodeReplace(b) == [i \in 1..Len(b) |-> IF b[i] < 128 THEN b[i] ELSE 65533]

\* PacketInfo._parse_coordinates: the plaintext position or (None, None)
PacketInfo_parse_coordinates(data_field) ==
    LET s == data_field
        I == {i \in 1..Len(s) : \E a \in 0..5, b \in 0..2, c \in 0..5 :
                                   LatLonMatch(s, i, a, b, c)}
    IN IF I = {} THEN <<None, None>> ELSE parse_coordinates(<<>>, data_field)

\* the fields PacketInfo.__init__ sets before it parses (parser.py 14-29)
PacketInfoDefaults ==
    [frame_type |-> Unknown,
     data_len |-> 0,
     call_from |-> Some(<<>>),
     call_to |-> Some(<<>>),
     timestamp |-> Some(<<0, 0, 0>>),
     hops_count |-> 0,
     hops_path |-> <<>>,
     lat_lon |-> <<None, None>>]

\* PacketInfo(raw_packet): __init__ and _parse_packet_agw.  The IndexError of
\* a missing byte 4 or of a payload without carriage return ends the parsing
\* with the fields set so far (150); the ValueError of datetime.time leaves
\* the constructor.
PacketInfo_parse_packet_agw(raw_packet) ==
    IF Len(raw_packet) < 5 THEN Returned(PacketInfoDefaults)
    ELSE
    LET data_bytes == strip0(Slice(raw_packet, HeaderLen, Len(raw_packet)))
        data == DecodeReplace(data_bytes)
        t == TimeSearch(data)
        h == DigitsValue(SubSeq(data, t[1], t[1] + 1))
        m == DigitsValue(SubSeq(data, t[1] + 3, t[1] + 4))
        sec == DigitsValue(SubSeq(data, t[1] + 6, t[1] + 7))
        head == [PacketInfoDefaults EXCEPT
                   !.frame_type = Some(Upper(raw_packet[5])),
                   !.call_from =
                       Some(DecodeReplace(strip0(Slice(raw_packet, 8, 18)))),
                   !.call_to =
                       Some(DecodeReplace(strip0(Slice(raw_packet, 18, 28))))]
    IN IF Len(SplitVals(data_bytes, 13)) < 2 THEN Returned(head)
       ELSE IF t # None /\ ~TimeValid(h, m, sec) THEN Raised("ValueError")
       ELSE Returned([head EXCEPT
                !.timestamp = IF t = None THEN @ ELSE Some(<<h, m, sec>>),
                !.hops_path = IF HopsString(data) = None THEN @
                              ELSE HopsOf(data),
                !.hops_count = IF HopsString(data) = None THEN @
                               ELSE HopsCount(HopsOf(data)),
                !.lat_lon = PacketInfo_parse_coordinates(data)])

\* re.split('[pqrstuwz]', s), as the index ranges of the parts
RECURSIVE SplitRangesOn(_, _, _, _)
SplitRangesOn(vals, S, lo, i) ==
    IF i > Len(vals) THEN << <<lo, Len(vals)>> >>
    ELSE IF vals[i] \in S
    THEN << <<lo, i - 1>> >> \o SplitRangesOn(vals, S, i + 1, i + 1)
    ELSE SplitRangesOn(vals, S, lo, i + 1)

\* the characters p q r s t u w z (parser.py 181)
HopSeparators == {112, 113, 114, 115, 116, 117, 119, 122}

\* str.strip(): without the whitespace at both ends
IsSpace(c) == c \in (9..13) \cup (28..32)

strip(s) ==
    LET ns == {i \in 1..Len(s) : ~IsSpace(s[i])} IN
    IF ns = {} THEN <<>> ELSE SubSeq(s, MinOf(ns), MaxOf(ns))

\* re.fullmatch("^WIDE(\b|([0-9] [0-9])|[0-9])", h) of parser.py 177, \b
\* being the backspace character here too
WideMatchKiss(h) ==
    /\ Len(h) >= 5
    /\ Take(h, 4) = <<87, 73, 68, 69>>
    /\ \/ Len(h) = 5 /\ (h[5] = 8 \/ IsDigit(h[5]))
       \/ Len(h) = 7 /\ IsDigit(h[5]) /\ h[6] = 32 /\ IsDigit(h[7])

IsHopKiss(h) == Len(h) > 0 /\ h \notin path_types /\ ~WideMatchKiss(h)

\* the list of hops PacketInfo makes of a KISS path (parser.py 181-185)
HopsOfKiss(path_string) ==
    LET r == SplitRangesOn(path_string, HopSeparators, 1, 1)
        parts == [k \in 1..Len(r) |->
                     strip(SubSeq(path_string, r[k][1], r[k][2]))]
    IN SelectSeq(parts, IsHopKiss)

\* PacketInfo(raw_packet, kiss=True): __init__ and _parse_packet_kiss.  The
\* IndexError of an empty packet or of a packet without 03 f0 ends the
\* parsing with the fields set so far; the ValueError of a first byte that is
\* not 0 leaves the constructor.
PacketInfo_parse_packet_kiss(raw_packet) ==
    IF raw_packet = <<>> THEN Returned(PacketInfoDefaults)
    ELSE IF raw_packet[1] # 0 THEN Raised("ValueError")
    ELSE
    LET head == [PacketInfoDefaults EXCEPT
                   !.call_to = Some(strip(Shifted(Slice(raw_packet, 1, 7)))),
                   !.call_from = Some(strip(Shifted(Slice(raw_packet, 8, 14))))]
        rest == Slice(raw_packet, 15, Len(raw_packet))
        marks == {i \in 1..(Len(rest) - 1) : rest[i] = 3 /\ rest[i + 1] = 240}
        first == MinOf(marks)
        later == {i \in marks : i >= first + 2}
        path_bytes == SubSeq(rest, 1, first - 1)
        data_bytes == SubSeq(rest, first + 2,
                             IF later = {} THEN Len(rest) ELSE MinOf(later) - 1)
        hops == HopsOfKiss(Shifted(path_bytes))
    IN IF marks = {} THEN Returned(head)
       ELSE Returned([head EXCEPT
                !.frame_type = Some(chr_U),
                !.hops_path = hops,
                !.hops_count = HopsCount(hops),
                !.lat_lon =
                    PacketInfo_parse_coordinates(DecodeReplace(data_bytes))])

\* ------------------------------------------------- inputs of the decoders
\* an AGW header as the TNC sends it: frame type t in byte 4, the callsigns
\* "KB6CYS" and "BEACON" in bytes 8-17 and 18-27, a data length in byte 28
DecoderHeader(t) ==
    [i \in 1..HeaderLen |->
        CASE i = 5 -> t
          [] i \in 9..14 -> <<75, 66, 54, 67, 89, 83>>[i - 8]
          [] i \in 19..24 -> <<66, 69, 65, 67, 79, 78>>[i - 18]
          [] i = 29 -> 95
          [] OTHER -> 0]

\* the same with a byte over 127 in the callsign of the sender
DecoderHeaderNonAscii(t) == [DecoderHeader(t) EXCEPT ![9] = 200]

\* payload texts: with and without a time token, a path, a position, a
\* carriage return, a byte over 127
DecoderTexts ==
    { <<>>,
      <<49, 50, 58, 49, 48, 58, 49, 48>>,      \* 12:10:10
      <<50, 53, 58, 49, 48, 58, 49, 48>>,      \* 25:10:10
      <<50, 53, 58, 49, 48, 58, 49, 48>> \o <<32>> \o <<49, 50, 58, 49, 48, 58, 49, 48>>,   \* 25:10:10 12:10:10
      <<91, 49, 52, 58, 51, 50, 58, 51, 51, 93, 13, 87, 88>>,      \* [14:32:33]\rWX
      <<13, 50, 51, 58, 53, 57, 58, 53, 57, 32, 48, 48, 58, 48, 48, 58, 48, 48>>,      \* \r23:59:59 00:00:00
      <<91, 50, 53, 58, 49, 48, 58, 49, 48, 93, 13, 87, 88>>,      \* [25:10:10]\rWX
      <<13>>,
      <<200>>,
      <<49, 50, 58, 49, 48, 58, 49, 48>> \o <<13, 200>>,     \* 12:10:10\r and a byte over 127
      <<86, 105, 97, 32, 78, 54, 69, 88, 45, 52, 32, 60, 85, 73, 62, 91, 49, 52, 58, 51, 50, 58, 51, 51, 93, 13>>,      \* Via N6EX-4 <UI>[14:32:33]\r
      <<86, 105, 97, 32, 87, 73, 68, 69, 50, 45, 50, 44, 82, 69, 76, 65, 89, 32, 60, 13>>,      \* Via WIDE2-2,RELAY <\r
      <<13, 33, 51, 52, 49, 57, 46, 56, 50, 78, 49, 49, 49, 56, 51, 54, 46, 48, 54, 87, 35>>,      \* \r!3419.82N111836.06W#
      <<50, 50, 53, 52, 46, 56, 49, 83, 47, 48, 52, 56, 50, 54, 46, 51, 52, 87>>,     \* 2254.81S/04826.34W
      <<86, 105, 97, 32, 82, 67, 72, 70, 76, 68, 44, 83, 72, 69, 80, 82, 68, 44, 87, 73, 68, 69, 50, 32, 60, 85, 73, 62, 91, 49, 55, 58, 53, 55, 58, 53, 54, 93, 13, 33, 51, 55, 51, 53, 46, 53, 49, 78, 83, 49, 49, 50, 53, 49, 46, 57, 54, 87, 35>>,      \* Via RCHFLD,SHEPRD,WIDE2 <UI>[17:57:56]\r!3735.51NS11251.96W#
      <<86, 105, 97, 32, 83, 72, 69, 80, 82, 68, 44, 87, 73, 68, 69, 49, 44, 87, 73, 68, 69, 50, 45, 50, 32, 60, 13>>,      \* Via SHEPRD,WIDE1,WIDE2-2 <\r
      <<86, 105, 97, 32, 84, 82, 65, 67, 69, 44, 78, 54, 69, 88, 44, 69, 67, 72, 79, 44, 75, 55, 65, 66, 32, 60, 13>>,      \* Via TRACE,N6EX,ECHO,K7AB <\r
      <<13, 33, 50, 50, 53, 52, 46, 56, 49, 83, 47, 48, 52, 56, 50, 54, 46, 51, 52, 87, 35>>,      \* \r!2254.81S/04826.34W#
      <<13, 33, 53, 51, 53, 52, 46, 48, 56, 78, 47, 48, 49, 49, 50, 52, 46, 56, 48, 69, 35>>,      \* \r!5354.08N/01124.80E#
      <<13, 33, 57, 57, 49, 50, 46, 51, 52, 78, 47, 49, 57, 57, 49, 50, 46, 51, 52, 87, 35>>,     \* \r!9912.34N/19912.34W#
      <<86, 105, 97, 32, 78, 54, 69, 88, 44, 87, 73, 68, 69, 8, 32, 60, 13>>,      \* Via N6EX,WIDE and a backspace <\r
      <<86, 105, 97, 32, 87, 73, 68, 69, 44, 78, 54, 69, 88, 32, 60, 13>> }     \* Via WIDE,N6EX <\r

\* a KISS frame: delimiter, command, destination, source, the addresses of
\* the path, control and PID 03 f0, the information field, delimiter
KissPacket(cmd, path, info) ==
    <<DELIM, cmd>> \o Ax25Address(<<65, 80, 82, 83, 32, 32>>, 96)
                   \o Ax25Address(<<78, 48, 67, 65, 76, 76>>, 97)
                   \o path \o <<3, 240>> \o info \o <<DELIM>>

\* the path fields of the KISS frames: none, a digipeater N6EX that has
\* repeated the frame (SSID byte e0), and the alias WIDE2 after it
KissPaths ==
    { <<>>,
      Ax25Address(<<78, 54, 69, 88, 32, 32>>, 224),
      Ax25Address(<<78, 54, 69, 88, 32, 32>>, 224)
          \o Ax25Address(<<87, 73, 68, 69, 50, 32>>, 97) }

\* the information fields of the KISS frames
KissInfos ==
    { <<62, 104, 105>>,      \* >hi
      <<33, 51, 52, 49, 57, 46, 56, 50, 78, 47, 49, 49, 56, 51, 54, 46, 48, 54, 87, 35>>,      \* !3419.82N/11836.06W#
      <<62, 200>> }

\* Python's s.strip(b'\xc0')
stripDelim(s) ==
    LET nd == {i \in 1..Len(s) : s[i] # DELIM} IN
    IF nd = {} THEN <<>> ELSE SubSeq(s, MinOf(nd), MaxOf(nd))

\* the KISS frames the decoders are applied to, with their delimiters and, as
\* the listener enqueues them, without
KissInputs ==
    LET F == {KissPacket(cmd, path, info) :
                cmd \in {0, 6}, path \in KissPaths, info \in KissInfos}
             \cup {<<DELIM, 6, 1, DELIM>>, <<DELIM, 0, DELIM>>}
    IN F \cup {stripDelim(f) : f \in F} \cup {<<DELIM>>}

\* the AGW packets the decoders are applied to: every prefix of a header, and
\* every header with every payload text
AgwInputs ==
    {Take(DecoderHeader(chr_U), n) : n \in 0..(HeaderLen - 1)}
    \cup {hd \o text : hd \in {DecoderHeader(chr_U), DecoderHeader(chr_T),
                                DecoderHeaderNonAscii(117)},
                        text \in DecoderTexts}

\* the raw packets the decoders are applied to
DecoderInputs == AgwInputs \cup KissInputs

\* ------------------------------------------------------- distance, metrics
\* Coordinates are integers in units of 1e-4 degree.  The trigonometry is
\* fixed-point with three decimals (the arithmetic of the model checker has
\* 32 bits), so a distance is the haversine distance to within that precision.
\* radians(x), in milliradians
Mrad(x) == ((x \div 10) * 1745) \div 100000

\* 1000 * sin(a / 1000) for a in 0..3142, by its Taylor series
SinM(a) ==
    LET x2 == (a * a) \div 1000
        t3 == (a * x2) \div 6000
        t5 == (t3 * x2) \div 20000
        t7 == (t5 * x2) \div 42000
        t9 == (t7 * x2) \div 72000
        t11 == (t9 * x2) \div 110000
    IN a - t3 + t5 - t7 + t9 - t11

Abs(x) == IF x < 0 THEN 0 - x ELSE x

\* 1000 * cos(a / 1000) for a in -1571..1571
CosM(a) == SinM(1571 - Abs(a))

\* asin(sqrt(h / 1000000)) in milliradians: the least angle whose squared sine
\* reaches h
AsinSqrtM(h) ==
    LET A == {a \in 0..1571 : SinM(a) * SinM(a) >= h} IN
    IF A = {} THEN 1571 ELSE MinOf(A)

\* TNCExporter.haversine_distance with the default radius, in meters
haversine_distance(pos1, pos2) ==
    LET lat1 == Mrad(pos1[1])
        lat2 == Mrad(pos2[1])
        dlat == Abs(Mrad(pos2[1] - pos1[1])) \div 2
        dlon == Abs(Mrad(pos2[2] - pos1[2])) \div 2
        hav == SinM(dlat) * SinM(dlat)
               + ((CosM(lat1) * CosM(lat2)) \div 1000)
                 * ((SinM(dlon) * SinM(dlon)) \div 1000)
    IN 2 * 6371 * AsinSqrtM(hav)

\* all([v is not None for v in lat_lon])
HasPosition(info) == info.lat_lon[1] # None /\ info.lat_lon[2] # None

Position(info) == <<info.lat_lon[1][1], info.lat_lon[2][1]>>

\* variant: every frame is taken for one heard directly
PathTypeSimplex(info) == "Simplex"

PathType(info) == IF info.hops_count > 0 THEN "Digi" ELSE "Simplex"

\* variant: no frame is taken for a transmitted one
IsTxNever(info) == FALSE

IsTx(info) == info.frame_type = Some(chr_T)

\* TNCExporter.packet_metrics: the instruments after one packet
packet_metrics(m, info, loc) ==
    IF IsTx(info)
    THEN [m EXCEPT !.PACKET_TX = Append(@, [path |-> PathType(info)])]
    ELSE LET m1 == [m EXCEPT !.PACKET_RX =
                        Append(@, [ax25_frame_type |-> info.frame_type,
                                   path |-> PathType(info),
                                   from_cs |-> info.call_from])]
             d == haversine_distance(loc, Position(info))
         IN IF HasPosition(info) /\ loc # None
            THEN [m1 EXCEPT !.PACKET_DISTANCE = Append(@, d),
                            !.RF_PACKET_DISTANCE =
                                IF info.hops_count = 0 THEN Append(@, d) ELSE @]
            ELSE m1

\* variant: the maximum over all received packets with a position
MaxDistanceAnyPath(packets, loc, simplex) ==
    LET D == {haversine_distance(loc, Position(packets[i].info)) :
                i \in {k \in 1..Len(packets) :
                         /\ ~IsTx(packets[k].info)
                         /\ HasPosition(packets[k].info)}}
    IN IF D = {} THEN 0 ELSE MaxOf(D)

\* max(...) of the distances of the received packets with a position that
\* satisfy the hop test, 0 when there is none (the ValueError caught)
MaxDistance(packets, loc, simplex) ==
    LET D == {haversine_distance(loc, Position(packets[i].info)) :
                i \in {k \in 1..Len(packets) :
                         /\ ~IsTx(packets[k].info)
                         /\ HasPosition(packets[k].info)
                         /\ (packets[k].info.hops_count = 0) = simplex}}
    IN IF D = {} THEN 0 ELSE MaxOf(D)

CountOf(packets, tx) ==
    Cardinality({k \in 1..Len(packets) : IsTx(packets[k].info) = tx})

\* summary_metrics raises: self.location is None and is iterated (371)
SummaryRaises(packets, loc) == Len(packets) > 0 /\ loc = None

\* variant: a cycle without packets leaves the gauges as they are
summary_metricsSkipEmpty(m, packets, loc) ==
    IF Len(packets) = 0 THEN m
    ELSE [m EXCEPT
            !.PACKET_RX_RECENT = Some(CountOf(packets, FALSE)),
            !.PACKET_TX_RECENT = Some(CountOf(packets, TRUE))]

\* TNCExporter.summary_metrics: the instruments after the summary of a cycle
\* (the gauges of metrics.py that it never sets keep their value)
summary_metrics(m, packets, loc) ==
    IF SummaryRaises(packets, loc) THEN m
    ELSE [m EXCEPT
            !.MAX_DISTANCE_RECENT =
                [Simplex |-> Some(IF Len(packets) > 0
                                  THEN MaxDistance(packets, loc, TRUE) ELSE 0),
                 Digi |-> Some(IF Len(packets) > 0
                               THEN MaxDistance(packets, loc, FALSE) ELSE 0)],
            !.PACKET_RX_RECENT = Some(CountOf(packets, FALSE)),
            !.PACKET_TX_RECENT = Some(CountOf(packets, TRUE))]


VARIABLES
    kiss_mode,          \* TNCExporter.kiss_mode
    location,           \* TNCExporter.location
    lkiss,              \* Listener.kiss_mode
    started,            \* TNCExporter.start has created the two tasks
    lpc,                \* where the listener's code is
    apc,                \* where metric_updater is
    client_socket,      \* Listener.client_socket: [conn, blocking]
    peer,               \* the TNC's end of the current connection
    sockbuf,            \* bytes the TNC has sent that the listener has not read
    sent,               \* control frames the listener has sent: <<conn, byte 4>>
    version_packet,     \* connect_agw's version_packet
    packet_bytes,       \* receive_packets' packet_bytes (bytes_recv is its length)
    packet_queue,       \* Listener.packet_queue: RawFrames [bytes, n]
    packets_to_summarize, \* metric_updater's list of this cycle
    metrics,            \* the metric instruments of metrics.py and those
                        \* exporter.py imports: a counter or summary is the
                        \* sequence of its updates, a gauge its last value
    wire,               \* history: wire[w] = [kind, conn] of transmission w
    refusals,           \* history: refusals in a row of the current connect loop
    enqueued,           \* history: number of RawFrames put on the queue
    taken,              \* history: RawFrames got from the queue: [n, cycle, ok]
    cycle,              \* history: number of the current aggregator cycle
    resets,             \* history: connections the TNC has closed
    wait_seconds,       \* None, or <<the delay metric_updater asks to sleep>>
    timer,              \* ticks until the sleep of metric_updater is over
    stop_pc,            \* where stop() is: "none" before it is called
    server,             \* the aioprometheus Service: "created", "serving", "stopped"
    metrics_task,       \* TRUE when self.metrics_task holds a task, FALSE for None
    listener_task,      \* TRUE when self.listener_task holds a task, FALSE for None
    socket_closed,      \* client_socket.close() was called by disconnect()
    stops,              \* history: calls of stop() that ran to their end
    raw_packet,         \* the argument of a decoder called on its own
    decoded             \* <<>>, or <<the results of the decoders on raw_packet>>

vars == <<kiss_mode, location, lkiss, started, lpc, apc, client_socket, peer,
          sockbuf, sent, version_packet, packet_bytes, packet_queue,
          packets_to_summarize, metrics, wire, refusals, enqueued, taken, cycle,
          resets, wait_seconds, timer, stop_pc, server, metrics_task,
          listener_task, socket_closed, stops, raw_packet, decoded>>

listenerVars == <<lpc, client_socket, peer, sockbuf, sent, version_packet,
                  packet_bytes, packet_queue, enqueued, refusals>>

aggregatorVars == <<apc, packets_to_summarize, metrics, taken, cycle>>

configVars == <<kiss_mode, location, lkiss>>

decoderVars == <<raw_packet, decoded>>

sleepVars == <<wait_seconds, timer>>

shutdownVars == <<stop_pc, server, metrics_task, listener_task, socket_closed,
                  stops>>

\* ------------------------------------------------------------ scheduling
\* the listener is inside a synchronous call of its task (time.sleep, a blocking
\* connect or recv): nothing else of the event loop runs until it returns
ListenerHoldsLoop ==
    /\ started
    /\ \/ lpc \in {"connect", "retry_sleep", "handshake"}
       \/ lpc = "stream" /\ client_socket.blocking

\* metric_updater is between two awaits that suspend it
AggregatorHoldsLoop == apc \in {"ready", "drain", "summary"}

\* where connect_agw / connect_kiss return to: the constructor (start() goes on)
\* or the except branch of receive_packets (continue)
ReturnTo == IF started THEN "stream" ELSE "constructed"

\* sock.recv(4096): some non-empty prefix of what has arrived
RecvSizes == {Min(Len(sockbuf), RecvMax)} \cup
             {n \in {ShortRead} : n < Min(Len(sockbuf), RecvMax)}

\* ------------------------------------------------------------------ Init
\* the instruments as the import of metrics.py makes them: no update, no value
NewMetrics ==
    [PACKET_RX |-> <<>>, PACKET_TX |-> <<>>,
     PACKET_DISTANCE |-> <<>>, RF_PACKET_DISTANCE |-> <<>>,
     MAX_DISTANCE_RECENT |-> [Simplex |-> None, Digi |-> None],
     PACKET_RX_RECENT |-> None, PACKET_TX_RECENT |-> None,
     RX_PACKET_SIZE |-> <<>>, TX_PACKET_SIZE |-> <<>>,
     PACKET_RX_RECENT_PATH |-> None,
     PACKET_RX_RECENT_FRAME |-> None,
     PACKET_TX_RECENT_PATH |-> None]

InitCommon ==
    /\ location \in {None, <<334200, -1116000>>}
    /\ started = FALSE
    /\ lpc = "connect"
    /\ apc = "none"
    /\ client_socket = [conn |-> 0, blocking |-> TRUE]
    /\ peer = "none"
    /\ sockbuf = <<>>
    /\ sent = <<>>
    /\ version_packet = <<>>
    /\ packet_bytes = <<>>
    /\ packet_queue = <<>>
    /\ packets_to_summarize = <<>>
    /\ metrics = NewMetrics
    /\ wire = <<>>
    /\ refusals = 0
    /\ enqueued = 0
    /\ taken = <<>>
    /\ cycle = 0
    /\ resets = 0
    /\ raw_packet = <<>>
    /\ decoded = <<>>
    /\ wait_seconds = None
    /\ timer = 0
    /\ stop_pc = "none"
    /\ server = "created"
    /\ metrics_task = FALSE
    /\ listener_task = FALSE
    /\ socket_closed = FALSE
    /\ stops = 0

\* TNCExporter(...) constructed, start() about to construct its Listener:
\* Listener(self.tnc_url) passes no kiss_mode, so the listener is an AGW one
ListenerKissArg(k) == FALSE

Init ==
    /\ kiss_mode \in BOOLEAN
    /\ lkiss = ListenerKissArg(kiss_mode)
    /\ InitCommon

\* --------------------------------------------------------------- listener
\* socket.connect succeeds (connect_agw 44-59, connect_kiss 85-95)
AfterConnect ==
    IF lkiss
    THEN /\ peer' = "monitor"
         /\ lpc' = ReturnTo
         /\ UNCHANGED <<sent, version_packet>>
    ELSE /\ sent' = Append(sent, <<resets + 1, chr_R>>)
         /\ version_packet' = <<>>
         /\ peer' = "asked"
         /\ lpc' = "handshake"

ConnectAccepted ==
    /\ lpc = "connect"
    /\ client_socket' = [client_socket EXCEPT !.conn = resets + 1]
    /\ sockbuf' = <<>>
    /\ refusals' = 0
    /\ AfterConnect
    /\ UNCHANGED <<packet_bytes, packet_queue, enqueued, started, wire, resets>>
    /\ UNCHANGED aggregatorVars
    /\ UNCHANGED configVars
    /\ UNCHANGED decoderVars
    /\ UNCHANGED shutdownVars
    /\ UNCHANGED sleepVars

\* variant: the connect is retried once and then given up
AfterRefusedGiveUp(k) == IF k > 1 THEN "crashed" ELSE "retry_sleep"

\* what the k-th refusal in a row leads to: sleep(retry_delay), then continue,
\* whatever k is (connect_agw 47-51, connect_kiss 88-92)
AfterRefused(k) == "retry_sleep"

\* socket.connect raises ConnectionRefusedError
ConnectRefused ==
    /\ lpc = "connect"
    /\ lpc' = AfterRefused(refusals + 1)
    /\ refusals' = Min(refusals + 1, MaxRefusals)
    /\ UNCHANGED <<client_socket, peer, sockbuf, sent, version_packet,
                   packet_bytes, packet_queue, enqueued, started, wire, resets>>
    /\ UNCHANGED aggregatorVars
    /\ UNCHANGED configVars
    /\ UNCHANGED decoderVars
    /\ UNCHANGED shutdownVars
    /\ UNCHANGED sleepVars

RetrySleep ==
    /\ lpc = "retry_sleep"
    /\ lpc' = "connect"
    /\ UNCHANGED <<client_socket, peer, sockbuf, sent, version_packet,
                   packet_bytes, packet_queue, enqueued, started, wire, resets, refusals>>
    /\ UNCHANGED aggregatorVars
    /\ UNCHANGED configVars
    /\ UNCHANGED decoderVars
    /\ UNCHANGED shutdownVars
    /\ UNCHANGED sleepVars

\* variant: any complete reply is taken for a version reply
HandshakeVerdictAny(vp) == "monitor"

\* the version reply is complete: byte 4 decides (connect_agw 68-80)
HandshakeVerdict(vp) ==
    IF vp[5][1] = chr_R THEN "monitor" ELSE "exit"

\* one recv of the handshake loop that returns data (connect_agw 62-80)
HandshakeRecv ==
    /\ lpc = "handshake"
    /\ sockbuf # <<>>
    /\ \E n \in RecvSizes :
         LET vp == version_packet \o Take(sockbuf, n) IN
         /\ sockbuf' = Drop(sockbuf, n)
         /\ version_packet' = vp
         /\ IF Len(vp) < HeaderLen
            THEN UNCHANGED <<lpc, sent, peer>>
            ELSE IF HandshakeVerdict(vp) = "monitor"
            THEN /\ sent' = Append(sent, <<client_socket.conn, chr_m>>)
                 /\ peer' = IF peer = "closed" THEN peer ELSE "monitor"
                 /\ lpc' = ReturnTo
            ELSE /\ lpc' = "exited"
                 /\ UNCHANGED <<sent, peer>>
    /\ UNCHANGED <<client_socket, packet_bytes, packet_queue, enqueued,
                   started, wire, resets, refusals>>
    /\ UNCHANGED aggregatorVars
    /\ UNCHANGED configVars
    /\ UNCHANGED decoderVars
    /\ UNCHANGED shutdownVars
    /\ UNCHANGED sleepVars

\* recv returns b'' in the handshake loop: raise ConnectionResetError (65).
\* Nothing catches it: at startup it leaves start(); in the task it is raised
\* inside the except branch of receive_packets and ends the task.
HandshakeReset ==
    /\ lpc = "handshake"
    /\ sockbuf = <<>>
    /\ peer = "closed"
    /\ lpc' = "crashed"
    /\ UNCHANGED <<client_socket, peer, sockbuf, sent, version_packet,
                   packet_bytes, packet_queue, enqueued, started, wire, resets, refusals>>
    /\ UNCHANGED aggregatorVars
    /\ UNCHANGED configVars
    /\ UNCHANGED decoderVars
    /\ UNCHANGED shutdownVars
    /\ UNCHANGED sleepVars

\* variant: the accumulated bytes are enqueued as they are in both modes
FramesOfWhole(pb) == <<pb>>

\* the RawFrames made of the accumulated bytes (receive_packets 136-144)
FramesOf(pb) ==
    IF lkiss
    THEN SelectSeq(split(pb, DELIM), LAMBDA p : Len(p) > 0)
    ELSE <<pb>>

\* put each frame on the queue, numbered in the order of the puts
Enqueue(q, frames, base) ==
    q \o [i \in 1..Len(frames) |-> [bytes |-> frames[i], n |-> base + i]]

\* receive_packets up to its first await (112-117)
ListenerBegin ==
    /\ lpc = "receive_packets"
    /\ ~AggregatorHoldsLoop
    /\ client_socket' = [client_socket EXCEPT !.blocking = FALSE]
    /\ packet_bytes' = <<>>
    /\ lpc' = "stream"
    /\ UNCHANGED <<peer, sockbuf, sent, version_packet, packet_queue, enqueued,
                   started, wire, resets, refusals>>
    /\ UNCHANGED aggregatorVars
    /\ UNCHANGED configVars
    /\ UNCHANGED decoderVars
    /\ UNCHANGED shutdownVars
    /\ UNCHANGED sleepVars

\* one sock_recv of the streaming loop that returns data (118-145)
StreamRecv ==
    /\ lpc = "stream"
    /\ ~AggregatorHoldsLoop
    /\ sockbuf # <<>>
    /\ \E n \in RecvSizes :
         LET pb == packet_bytes \o Take(sockbuf, n) IN
         /\ sockbuf' = Drop(sockbuf, n)
         /\ IF Len(pb) < HeaderLen
            THEN /\ packet_bytes' = pb
                 /\ UNCHANGED <<packet_queue, enqueued>>
            ELSE /\ packet_queue' = Enqueue(packet_queue, FramesOf(pb), enqueued)
                 /\ enqueued' = enqueued + Len(FramesOf(pb))
                 /\ packet_bytes' = <<>>
    /\ UNCHANGED <<lpc, client_socket, peer, sent, version_packet, started,
                   wire, resets, refusals>>
    /\ UNCHANGED aggregatorVars
    /\ UNCHANGED configVars
    /\ UNCHANGED decoderVars
    /\ UNCHANGED shutdownVars
    /\ UNCHANGED sleepVars

\* what is left of packet_bytes when the except branch has run: the branch
\* (123-132) assigns neither packet_bytes nor bytes_recv before its continue
AfterReset(pb) == pb

\* variant: the zero-length read is not told from data, the loop reads on
StreamResetIgnored ==
    /\ lpc = "stream"
    /\ ~AggregatorHoldsLoop
    /\ sockbuf = <<>>
    /\ peer = "closed"
    /\ packet_queue' = Enqueue(packet_queue, <<packet_bytes>>, enqueued)
    /\ enqueued' = enqueued + 1
    /\ peer' = "none"
    /\ lpc' = "connect"
    /\ UNCHANGED <<client_socket, packet_bytes, sockbuf, sent, version_packet,
                   started, wire, resets, refusals>>
    /\ UNCHANGED aggregatorVars
    /\ UNCHANGED configVars
    /\ UNCHANGED decoderVars
    /\ UNCHANGED shutdownVars
    /\ UNCHANGED sleepVars

\* sock_recv returns b'' or raises ConnectionResetError (121-132): close the
\* socket, make a new one and call connect_agw / connect_kiss
StreamReset ==
    /\ lpc = "stream"
    /\ ~AggregatorHoldsLoop
    /\ sockbuf = <<>>
    /\ peer = "closed"
    /\ client_socket' = [conn |-> 0, blocking |-> TRUE]
    /\ packet_bytes' = AfterReset(packet_bytes)
    /\ peer' = "none"
    /\ lpc' = "connect"
    /\ UNCHANGED <<sockbuf, sent, version_packet, packet_queue, enqueued,
                   started, wire, resets, refusals>>
    /\ UNCHANGED aggregatorVars
    /\ UNCHANGED configVars
    /\ UNCHANGED decoderVars
    /\ UNCHANGED shutdownVars
    /\ UNCHANGED sleepVars

\* -------------------------------------------------------------------- TNC
\* the transmissions that are monitor frames (not answers to the handshake)
MonitorFrames == {w \in 1..Len(wire) : wire[w].kind \in Kinds}

\* the bytes of a monitor frame in the protocol of the session
FrameBytes(kind) == IF lkiss THEN KissFrame(kind) ELSE WireFrame(kind)

\* the TNC answers the version request
TncReply ==
    /\ peer = "asked"
    /\ \E good \in BOOLEAN :
         /\ wire' = Append(wire, [kind |-> IF good THEN "reply" ELSE "other",
                                  conn |-> client_socket.conn])
         /\ sockbuf' = sockbuf \o Tagged(VersionReply(good), Len(wire) + 1)
    /\ peer' = "replied"
    /\ UNCHANGED <<lpc, client_socket, sent, version_packet, packet_bytes,
                   packet_queue, enqueued, started, resets, refusals>>
    /\ UNCHANGED aggregatorVars
    /\ UNCHANGED configVars
    /\ UNCHANGED decoderVars
    /\ UNCHANGED shutdownVars
    /\ UNCHANGED sleepVars

\* the TNC transmits one monitor frame on the current connection
TncSend ==
    /\ peer = "monitor"
    /\ Cardinality(MonitorFrames) < MaxFrames
    /\ \E kind \in Kinds :
         /\ wire' = Append(wire, [kind |-> kind, conn |-> client_socket.conn])
         /\ sockbuf' = sockbuf \o Tagged(FrameBytes(kind), Len(wire) + 1)
    /\ UNCHANGED <<lpc, client_socket, peer, sent, version_packet, packet_bytes,
                   packet_queue, enqueued, started, resets, refusals>>
    /\ UNCHANGED aggregatorVars
    /\ UNCHANGED configVars
    /\ UNCHANGED decoderVars
    /\ UNCHANGED shutdownVars
    /\ UNCHANGED sleepVars

\* the TNC closes the connection (FIN: what it sent stays readable) or resets
\* it (RST: unread bytes are lost)
TncClose ==
    /\ peer \in {"asked", "replied", "monitor"}
    /\ resets < MaxResets
    /\ \E keep \in BOOLEAN : sockbuf' = IF keep THEN sockbuf ELSE <<>>
    /\ peer' = "closed"
    /\ resets' = resets + 1
    /\ UNCHANGED <<lpc, client_socket, sent, version_packet, packet_bytes,
                   packet_queue, enqueued, started, wire, refusals>>
    /\ UNCHANGED aggregatorVars
    /\ UNCHANGED configVars
    /\ UNCHANGED decoderVars
    /\ UNCHANGED shutdownVars
    /\ UNCHANGED sleepVars

\* ------------------------------------------------------------- aggregator
\* TNCExporter.start after the Listener is constructed: the endpoint is started
\* and the two tasks are created, metric_updater first
Start ==
    /\ lpc = "constructed"
    /\ ~started
    /\ started' = TRUE
    /\ lpc' = "receive_packets"
    /\ apc' = "ready"
    /\ server' = "serving"
    /\ metrics_task' = TRUE
    /\ listener_task' = TRUE
    /\ UNCHANGED <<stop_pc, socket_closed, stops>>
    /\ UNCHANGED <<client_socket, peer, sockbuf, sent, version_packet,
                   packet_bytes, packet_queue, enqueued, wire, resets, refusals>>
    /\ UNCHANGED <<packets_to_summarize, metrics, taken, cycle>>
    /\ UNCHANGED configVars
    /\ UNCHANGED decoderVars
    /\ UNCHANGED sleepVars

\* variant: the list is made once, before the loop, and never emptied
NewCycleListKept(old) == old

\* packets_to_summarize at the top of the loop of metric_updater (300)
NewCycleList(old) == <<>>

\* the top of a cycle: the task is created or the timer of its sleep has
\* fired, and the event loop is free to run it
CycleStart ==
    /\ apc \in {"ready", "sleep"}
    /\ timer = 0
    /\ ~ListenerHoldsLoop
    /\ lpc # "exited"
    /\ cycle < MaxCycles
    /\ cycle' = cycle + 1
    /\ packets_to_summarize' = NewCycleList(packets_to_summarize)
    /\ apc' = "drain"
    \* wait_seconds is assigned again before it is read
    /\ wait_seconds' = None
    /\ UNCHANGED <<timer, metrics, taken, started, wire, resets>>
    /\ UNCHANGED listenerVars
    /\ UNCHANGED configVars
    /\ UNCHANGED decoderVars
    /\ UNCHANGED shutdownVars

\* variant: the newest frame first, as a LIFO queue serves it
QueueGetLifo(q) == <<q[Len(q)], SubSeq(q, 1, Len(q) - 1)>>

\* variant: the frame is read and left on the queue
QueueGetPeek(q) == <<Head(q), q>>

\* packet_queue.get(): the frame got and the queue left
QueueGet(q) == <<Head(q), Tail(q)>>

\* the decoder the aggregator applies (307-310)
Decode(bytes) ==
    IF kiss_mode THEN parse_packet_kiss(Values(bytes))
    ELSE parse_packet_agw(Values(bytes))

\* where the loop of the cycle goes after an exception in a frame: the try
\* encloses the while loop (302-316), so to the summary
AfterFrameError == "summary"

\* one pass of the while loop of the cycle (304-314)
DrainOne ==
    /\ apc = "drain"
    /\ packet_queue # <<>>
    /\ LET packet == QueueGet(packet_queue)[1]
           parsed == Decode(packet.bytes)
       IN /\ packet_queue' = QueueGet(packet_queue)[2]
          /\ IF parsed.raised # ""
             THEN /\ taken' = Append(taken, [n |-> packet.n, cycle |-> cycle,
                                             ok |-> FALSE])
                  /\ apc' = AfterFrameError
                  /\ UNCHANGED <<metrics, packets_to_summarize>>
             ELSE /\ taken' = Append(taken, [n |-> packet.n, cycle |-> cycle,
                                             ok |-> TRUE])
                  /\ metrics' = packet_metrics(metrics, parsed.info, location)
                  /\ packets_to_summarize' =
                         Append(packets_to_summarize,
                                [info |-> parsed.info, n |-> packet.n])
                  /\ UNCHANGED apc
    /\ UNCHANGED <<cycle, started, wire, resets>>
    /\ UNCHANGED <<lpc, client_socket, peer, sockbuf, sent, version_packet,
                   packet_bytes, enqueued, refusals>>
    /\ UNCHANGED configVars
    /\ UNCHANGED decoderVars
    /\ UNCHANGED shutdownVars
    /\ UNCHANGED sleepVars

\* variant: no handler around summary_metrics, its exception ends the task
AfterSummaryErrorDies == "crashed"

\* where metric_updater goes when summary_metrics raises: the except branch
\* logs it (319-320) and the code goes on to the sleep
AfterSummaryError == "sleep"

\* (start + self.stats_interval - end).total_seconds() (323), the cycle having
\* taken elapsed ticks from start to end
WaitSeconds(elapsed) == StatsInterval - elapsed

\* variant: the timer is set to the delay as it is, negative or not
sleepRaw(delay) == delay

\* asyncio.sleep(delay): the ticks until the coroutine is resumed.  With a
\* delay of zero or less it gives the event loop one turn and is resumed at
\* once; otherwise a timer of delay wakes it.
sleep(delay) == IF delay <= 0 THEN 0 ELSE delay

\* variant: a delay of zero or less goes on without giving up the event loop
AfterSleepCallBusy(delay) == IF delay <= 0 THEN "ready" ELSE "sleep"

\* await asyncio.sleep(wait_seconds) (324): metric_updater is suspended,
\* whatever the delay
AfterSleepCall(delay) == "sleep"

\* the queue is empty or a frame raised: summary_metrics in its try (317-320),
\* then the sleep to the end of the interval (322-324); the clock tells how
\* long the cycle took
Summarize ==
    /\ \/ apc = "summary"
       \/ apc = "drain" /\ packet_queue = <<>>
    /\ metrics' = summary_metrics(metrics, packets_to_summarize, location)
    /\ \E elapsed \in 0..MaxElapsed :
          /\ wait_seconds' = Some(WaitSeconds(elapsed))
          /\ timer' = sleep(WaitSeconds(elapsed))
          /\ apc' = IF SummaryRaises(packets_to_summarize, location)
                    THEN AfterSummaryError
                    ELSE AfterSleepCall(WaitSeconds(elapsed))
    /\ UNCHANGED <<packets_to_summarize, taken, cycle, started, wire, resets>>
    /\ UNCHANGED listenerVars
    /\ UNCHANGED configVars
    /\ UNCHANGED decoderVars
    /\ UNCHANGED shutdownVars

\* a tick of the clock while metric_updater sleeps
TimerTick ==
    /\ apc = "sleep"
    /\ timer > 0
    /\ timer' = timer - 1
    /\ UNCHANGED <<wait_seconds, apc, packets_to_summarize, metrics, taken,
                   cycle, started, wire, resets>>
    /\ UNCHANGED listenerVars
    /\ UNCHANGED configVars
    /\ UNCHANGED decoderVars
    /\ UNCHANGED shutdownVars

\* ------------------------------------------------------------------ Next
Next ==
    \/ ConnectAccepted
    \/ ConnectRefused
    \/ RetrySleep
    \/ HandshakeRecv
    \/ HandshakeReset
    \/ Start
    \/ ListenerBegin
    \/ StreamRecv
    \/ StreamReset
    \/ TncReply
    \/ TncSend
    \/ TncClose
    \/ CycleStart
    \/ DrainOne
    \/ Summarize
    \/ TimerTick

Spec == Init /\ [][Next]_vars

\* ------------------------------------------- the Listener class on its own
\* Listener(tnc_url, kiss_mode) constructed by a caller in either mode, and
\* receive_packets run as a task; nothing consumes the queue
InitListener ==
    /\ kiss_mode = FALSE
    /\ lkiss \in BOOLEAN
    /\ InitCommon

\* the caller creates the task of receive_packets
ListenerTask ==
    /\ lpc = "constructed"
    /\ ~started
    /\ started' = TRUE
    /\ lpc' = "receive_packets"
    /\ listener_task' = TRUE
    /\ UNCHANGED <<stop_pc, server, metrics_task, socket_closed, stops>>
    /\ UNCHANGED <<client_socket, peer, sockbuf, sent, version_packet,
                   packet_bytes, packet_queue, enqueued, wire, resets, refusals>>
    /\ UNCHANGED aggregatorVars
    /\ UNCHANGED configVars
    /\ UNCHANGED decoderVars
    /\ UNCHANGED sleepVars

NextListener ==
    \/ ConnectAccepted
    \/ ConnectRefused
    \/ RetrySleep
    \/ HandshakeRecv
    \/ HandshakeReset
    \/ ListenerTask
    \/ ListenerBegin
    \/ StreamRecv
    \/ StreamReset
    \/ TncReply
    \/ TncSend
    \/ TncClose

SpecListener == InitListener /\ [][NextListener]_vars

\* the listener's code runs on whenever it can: its connect, its retry sleep
\* and its reads return, and a reset is seen; and the TNC is up: of the
\* connects that are tried again and again one is accepted in the end, and a
\* version request is answered unless the TNC closes the connection first
SpecListenerFair ==
    /\ SpecListener
    /\ SF_vars(ConnectAccepted)
    /\ WF_vars(RetrySleep)
    /\ WF_vars(HandshakeRecv)
    /\ WF_vars(HandshakeReset)
    /\ WF_vars(StreamReset)
    /\ WF_vars(TncReply)

\* -------------------------------------------- metric_updater on its own
\* the queues of up to MaxQueued RawFrames, numbered in queue order
Queues ==
    UNION {[1..n -> QueuedFrames] : n \in 0..MaxQueued}

\* the exporter has started, the listener has enqueued some frames and is
\* suspended in sock_recv with nothing to read; metric_updater runs its cycles
InitAggregator ==
    /\ kiss_mode = FALSE
    /\ lkiss = FALSE
    /\ location \in {None, <<334200, -1116000>>}
    /\ started = TRUE
    /\ lpc = "stream"
    /\ apc = "ready"
    /\ client_socket = [conn |-> 1, blocking |-> FALSE]
    /\ peer = "monitor"
    /\ sockbuf = <<>>
    /\ sent = << <<1, chr_R>>, <<1, chr_m>> >>
    /\ version_packet = Tagged(VersionReply(TRUE), 1)
    /\ packet_bytes = <<>>
    /\ \E q \in Queues :
         /\ packet_queue = [i \in 1..Len(q) |-> [bytes |-> Tagged(q[i], i + 1),
                                                 n |-> i]]
         /\ wire = <<[kind |-> "reply", conn |-> 1]>>
                     \o [i \in 1..Len(q) |-> [kind |-> "queued", conn |-> 1]]
         /\ enqueued = Len(q)
    /\ packets_to_summarize = <<>>
    /\ metrics = NewMetrics
    /\ refusals = 0
    /\ taken = <<>>
    /\ cycle = 0
    /\ resets = 0
    /\ raw_packet = <<>>
    /\ decoded = <<>>
    /\ wait_seconds = None
    /\ timer = 0
    /\ stop_pc = "none"
    /\ server = "serving"
    /\ metrics_task = TRUE
    /\ listener_task = TRUE
    /\ socket_closed = FALSE
    /\ stops = 0

\* the RawFrames queued for the KISS decoder: a data frame as the TNC sends
\* it, delimiters and all, with and without a digipeater and a position, a
\* frame of command 6, and the segment between the delimiters of a data frame
KissQueuedFrames ==
    { KissPacket(0, <<>>, <<62, 104, 105>>),
      KissPacket(0, Ax25Address(<<78, 54, 69, 88, 32, 32>>, 224),
                 <<33, 51, 52, 49, 57, 46, 56, 50, 78, 47, 49, 49, 56, 51, 54,
                   46, 48, 54, 87, 35>>),
      KissPacket(6, <<>>, <<62, 104, 105>>),
      stripDelim(KissPacket(0, <<>>, <<62, 104, 105>>)) }

KissQueues ==
    UNION {[1..n -> KissQueuedFrames] : n \in 0..MaxQueued}

\* the exporter was made with kiss_mode=True and has started; some RawFrames
\* are queued, and wire keeps the bytes of each; metric_updater runs its cycles
InitAggregatorKiss ==
    /\ kiss_mode = TRUE
    /\ lkiss = ListenerKissArg(kiss_mode)
    /\ location \in {None, <<334200, -1116000>>}
    /\ started = TRUE
    /\ lpc = "stream"
    /\ apc = "ready"
    /\ client_socket = [conn |-> 1, blocking |-> FALSE]
    /\ peer = "monitor"
    /\ sockbuf = <<>>
    /\ sent = << <<1, chr_R>>, <<1, chr_m>> >>
    /\ version_packet = Tagged(VersionReply(TRUE), 1)
    /\ packet_bytes = <<>>
    /\ \E q \in KissQueues :
         /\ packet_queue = [i \in 1..Len(q) |-> [bytes |-> Tagged(q[i], i + 1),
                                                 n |-> i]]
         /\ wire = <<[kind |-> "reply", conn |-> 1, frame |-> <<>>]>>
                     \o [i \in 1..Len(q) |-> [kind |-> "queued", conn |-> 1,
                                              frame |-> q[i]]]
         /\ enqueued = Len(q)
    /\ packets_to_summarize = <<>>
    /\ metrics = NewMetrics
    /\ refusals = 0
    /\ taken = <<>>
    /\ cycle = 0
    /\ resets = 0
    /\ raw_packet = <<>>
    /\ decoded = <<>>
    /\ wait_seconds = None
    /\ timer = 0
    /\ stop_pc = "none"
    /\ server = "serving"
    /\ metrics_task = TRUE
    /\ listener_task = TRUE
    /\ socket_closed = FALSE
    /\ stops = 0

NextAggregator ==
    \/ CycleStart
    \/ DrainOne
    \/ Summarize
    \/ TimerTick

SpecAggregator == InitAggregator /\ [][NextAggregator]_vars

SpecAggregatorKiss == InitAggregatorKiss /\ [][NextAggregator]_vars

\* ------------------------------------------------------------- shutdown
\* `if self.metrics_task:` and `if self.listener_task:` (127, 133)
HasTask(task) == task

\* variant: stopping a Service that does not serve raises
ServerStopRaisesWhenStopped(srv) == srv # "serving"

\* await self.server.stop() (142): Service.stop of aioprometheus logs that the
\* application is not running when it is not, and raises in neither case
ServerStopRaises(srv) == FALSE

\* the state stop() reads and writes
StopState ==
    [pc |-> stop_pc, apc |-> apc, lpc |-> lpc, server |-> server,
     metrics_task |-> metrics_task, listener_task |-> listener_task,
     socket_closed |-> socket_closed, stops |-> stops]

\* stop() from `await self.server.stop()` to its end (142-143):
\* Listener.disconnect closes client_socket (listener.py 97-100)
StopTail(st) ==
    IF ServerStopRaises(st.server) THEN [st EXCEPT !.pc = "raised"]
    ELSE [st EXCEPT !.server = "stopped", !.socket_closed = TRUE,
                    !.pc = "done", !.stops = @ + 1]

\* stop() from `if self.listener_task:` to its next await (133-136).  cancel()
\* of a task that has ended does nothing, and awaiting that task raises the
\* exception that ended it, which is no CancelledError (a SystemExit raised
\* while the loop runs stop() leaves stop() unfinished in the same way).
StopListenerPart(st) ==
    IF ~HasTask(st.listener_task) THEN StopTail(st)
    ELSE IF st.lpc \in {"crashed", "exited"} THEN [st EXCEPT !.pc = "raised"]
    ELSE [st EXCEPT !.lpc = "cancelling", !.pc = "await_listener"]

\* stop() from its first line to its next await (127-130)
StopMetricsPart(st) ==
    IF ~HasTask(st.metrics_task) THEN StopListenerPart(st)
    ELSE [st EXCEPT !.apc = "cancelling", !.pc = "await_metrics"]

\* the state stop() leaves
StopEffect(st) ==
    /\ stop_pc' = st.pc
    /\ apc' = st.apc
    /\ lpc' = st.lpc
    /\ server' = st.server
    /\ metrics_task' = st.metrics_task
    /\ listener_task' = st.listener_task
    /\ socket_closed' = st.socket_closed
    /\ stops' = st.stops
    /\ UNCHANGED <<started, client_socket, peer, sockbuf, sent, version_packet,
                   packet_bytes, packet_queue, packets_to_summarize, metrics,
                   wire, refusals, enqueued, taken, cycle, resets>>
    /\ UNCHANGED configVars
    /\ UNCHANGED decoderVars
    /\ UNCHANGED sleepVars

\* loop.run_until_complete(exp.stop()) (__main__.py 119), or a later call of
\* stop(): no task is inside a step of its own
StopCall ==
    /\ started
    /\ stop_pc \in {"none", "done"}
    /\ stops < MaxStops
    /\ ~ListenerHoldsLoop
    /\ apc \notin {"drain", "summary"}
    /\ StopEffect(StopMetricsPart(StopState))

\* the event loop throws CancelledError into metric_updater, at its sleep or
\* before its first step; no handler of metric_updater catches it
MetricsTaskCancelled ==
    /\ apc = "cancelling"
    /\ ~ListenerHoldsLoop
    /\ StopEffect([StopState EXCEPT !.apc = "cancelled"])

\* the awaited metrics task has ended: stop() goes on (131-136)
StopAfterMetrics ==
    /\ stop_pc = "await_metrics"
    /\ apc = "cancelled"
    /\ ~ListenerHoldsLoop
    /\ StopEffect(StopListenerPart([StopState EXCEPT !.metrics_task = FALSE]))

\* the event loop throws CancelledError into receive_packets, at sock_recv or
\* before its first step; its handler catches connection errors only
ListenerTaskCancelled ==
    /\ lpc = "cancelling"
    /\ StopEffect([StopState EXCEPT !.lpc = "cancelled"])

\* the awaited listener task has ended: stop() goes on to its end (137-143)
StopAfterListener ==
    /\ stop_pc = "await_listener"
    /\ lpc = "cancelled"
    /\ StopEffect(StopTail([StopState EXCEPT !.listener_task = FALSE]))

\* an exporter with an AGW listener and no receiver location is started and,
\* at some moment, stopped
InitStop ==
    /\ Init
    /\ kiss_mode = FALSE
    /\ location = None

NextStop ==
    \/ Next
    \/ StopCall
    \/ MetricsTaskCancelled
    \/ StopAfterMetrics
    \/ ListenerTaskCancelled
    \/ StopAfterListener

SpecStop == InitStop /\ [][NextStop]_vars

\* ------------------------------------------------ the decoders on their own
\* a caller holds some bytes and no exporter is started
InitDecoder ==
    /\ kiss_mode = FALSE
    /\ lkiss = FALSE
    /\ location = None
    /\ started = FALSE
    /\ lpc = "none"
    /\ apc = "none"
    /\ client_socket = [conn |-> 0, blocking |-> TRUE]
    /\ peer = "none"
    /\ sockbuf = <<>>
    /\ sent = <<>>
    /\ version_packet = <<>>
    /\ packet_bytes = <<>>
    /\ packet_queue = <<>>
    /\ packets_to_summarize = <<>>
    /\ metrics = NewMetrics
    /\ wire = <<>>
    /\ refusals = 0
    /\ enqueued = 0
    /\ taken = <<>>
    /\ cycle = 0
    /\ resets = 0
    /\ raw_packet \in DecoderInputs
    /\ decoded = <<>>
    /\ wait_seconds = None
    /\ timer = 0
    /\ stop_pc = "none"
    /\ server = "created"
    /\ metrics_task = FALSE
    /\ listener_task = FALSE
    /\ socket_closed = FALSE
    /\ stops = 0

\* TNCExporter.parse_packet_agw(raw_packet) and PacketInfo(raw_packet)
DecodeAgw ==
    /\ decoded = <<>>
    /\ lpc = "none"
    \* the data length of bytes 28-31 stays within the integers of the checker
    /\ raw_packet \in AgwInputs
    /\ decoded' = <<[kiss |-> FALSE,
                     exporter |-> parse_packet_agw(raw_packet),
                     parser |-> PacketInfo_parse_packet_agw(raw_packet)]>>
    /\ UNCHANGED <<kiss_mode, location, lkiss, started, lpc, apc, client_socket,
                   peer, sockbuf, sent, version_packet, packet_bytes,
                   packet_queue, packets_to_summarize, metrics, wire, refusals,
                   enqueued, taken, cycle, resets, raw_packet>>
    /\ UNCHANGED sleepVars
    /\ UNCHANGED shutdownVars

\* TNCExporter.parse_packet_kiss(raw_packet) and
\* PacketInfo(raw_packet, kiss=True)
DecodeKiss ==
    /\ decoded = <<>>
    /\ lpc = "none"
    /\ decoded' = <<[kiss |-> TRUE,
                     exporter |-> parse_packet_kiss(raw_packet),
                     parser |-> PacketInfo_parse_packet_kiss(raw_packet)]>>
    /\ UNCHANGED <<kiss_mode, location, lkiss, started, lpc, apc, client_socket,
                   peer, sockbuf, sent, version_packet, packet_bytes,
                   packet_queue, packets_to_summarize, metrics, wire, refusals,
                   enqueued, taken, cycle, resets, raw_packet>>
    /\ UNCHANGED sleepVars
    /\ UNCHANGED shutdownVars

NextDecoder ==
    \/ DecodeAgw
    \/ DecodeKiss

SpecDecoder == InitDecoder /\ [][NextDecoder]_vars

\* ================================================================ claims
\* the connections the bytes of a RawFrame were received on
ConnsOf(bytes) == {wire[w].conn : w \in Wires(bytes)}

\* C1: a partial frame accumulated before a connection reset is discarded: no
\* RawFrame on the queue holds bytes received on two different connections.
C1_PartialFrameDiscarded ==
    \A k \in 1..Len(packet_queue) :
        Cardinality(ConnsOf(packet_queue[k].bytes)) <= 1

\* C2: no exception escapes the streaming loop: once the task of
\* receive_packets runs, it never ends by an exception.
C2_NoExceptionEscapes == started => lpc # "crashed"

\* the RawFrame that transmission w alone makes: its bytes, without the
\* delimiters in KISS mode
FrameOfWire(w) ==
    SelectSeq(Tagged(FrameBytes(wire[w].kind), w),
              LAMBDA b : ~lkiss \/ b[1] # DELIM)

\* C3: every RawFrame on the queue is exactly one whole TNC transmission (no
\* part of a frame, no two frames merged), and no transmission is on the
\* queue twice.
C3_OneFramePerTransmission ==
    /\ \A k \in 1..Len(packet_queue) :
         \E w \in MonitorFrames : packet_queue[k].bytes = FrameOfWire(w)
    /\ \A j, k \in 1..Len(packet_queue) :
         j # k => Wires(packet_queue[j].bytes) \cap Wires(packet_queue[k].bytes) = {}

\* the bytes of all queued RawFrames, in queue order
RECURSIVE QueuedBytes(_)
QueuedBytes(q) == IF q = <<>> THEN <<>> ELSE Head(q).bytes \o QueuedBytes(Tail(q))

\* C4: frames are enqueued in receipt order and processed in enqueue order:
\* the i-th frame got by the aggregator is the i-th frame enqueued, the queue
\* holds the following ones in enqueue order, and the queued bytes are in the
\* order of their transmission.
C4_ProcessedInEnqueueOrder ==
    /\ \A i \in 1..Len(taken) : taken[i].n = i
    /\ \A j \in 1..Len(packet_queue) : packet_queue[j].n = Len(taken) + j
    /\ LET b == QueuedBytes(packet_queue) IN
       \A i \in 1..(Len(b) - 1) : b[i][2] <= b[i + 1][2]

\* two frames have been enqueued and both processed
C4_Witness ==
    /\ Len(taken) >= 2
    /\ taken[1].ok /\ taken[2].ok
    /\ taken[1].cycle = taken[2].cycle

\* how often frame n is on the queue, and how often it was got from it
TimesQueued(n) == Cardinality({j \in 1..Len(packet_queue) : packet_queue[j].n = n})

TimesTaken(n) == Cardinality({i \in 1..Len(taken) : taken[i].n = n})

\* C5: every enqueued RawFrame is either still queued or was removed by one
\* drain step, never both and never twice; every frame decoded without error
\* is counted once in the cumulative counters.
C5_ConsumedOnce ==
    /\ \A n \in 1..enqueued : TimesQueued(n) + TimesTaken(n) = 1
    /\ Len(metrics.PACKET_RX) + Len(metrics.PACKET_TX)
         = Cardinality({i \in 1..Len(taken) : taken[i].ok})

\* a frame was consumed and counted while another is still queued
C5_Witness ==
    /\ Len(taken) >= 1
    /\ taken[1].ok
    /\ packet_queue # <<>>
    /\ Len(metrics.PACKET_RX) + Len(metrics.PACKET_TX) >= 1

\* C6: an exception in one frame does not abort the cycle: the summary of a
\* cycle is reached only with the queue drained.
C6_CycleNotAborted == apc = "summary" => packet_queue = <<>>

\* the frames processed without error in the current cycle
CycleFrames ==
    {taken[i].n : i \in {k \in 1..Len(taken) :
                           taken[k].cycle = cycle /\ taken[k].ok}}

ListFrames == {packets_to_summarize[i].n : i \in 1..Len(packets_to_summarize)}

\* C7: the list a cycle's summary is computed over holds exactly the frames
\* processed in that cycle, each once, and the published counts of the last
\* window add up to their number.
C7_WindowIsThisCycle ==
    apc \in {"drain", "summary", "sleep"} =>
        /\ ListFrames = CycleFrames
        /\ Len(packets_to_summarize) = Cardinality(CycleFrames)
        /\ (apc = "sleep" /\ ~SummaryRaises(packets_to_summarize, location)) =>
             metrics.PACKET_RX_RECENT[1] + metrics.PACKET_TX_RECENT[1]
               = Cardinality(CycleFrames)

\* a second cycle has processed a frame after the first cycle processed one
C7_Witness ==
    /\ apc = "sleep"
    /\ CycleFrames # {}
    /\ \E i \in 1..Len(taken) : taken[i].cycle < cycle /\ taken[i].ok
    /\ location # None

\* C8: once the two tasks run, the listener is never inside a synchronous
\* (process-blocking) connect, retry wait or read.
C8_BlockingOnlyAtStartup ==
    started =>
        /\ lpc \notin {"connect", "retry_sleep", "handshake"}
        /\ lpc = "stream" => ~client_socket.blocking

\* the complete reply to the version request does not carry 'R' in byte 4
BadReply ==
    /\ ~lkiss
    /\ Len(version_packet) >= HeaderLen
    /\ version_packet[5][1] # chr_R

MonitorSentOn(conn) == \E i \in 1..Len(sent) : sent[i] = <<conn, chr_m>>

\* C9: after a version reply without 'R' in byte 4 the listener has exited
\* without sending the monitor request on that connection, and from then on
\* nothing is sent, no socket is made or connected, no frame is enqueued and
\* no cycle runs.
C9_MismatchIsFatal ==
    /\ [](BadReply => (lpc = "exited" /\ ~MonitorSentOn(client_socket.conn)))
    /\ [][lpc = "exited" =>
            /\ lpc' = "exited"
            /\ UNCHANGED <<sent, client_socket, packet_queue, enqueued,
                           packet_bytes, refusals, apc, metrics, cycle>>]_vars

\* the mismatch happens on a reconnect, with frames enqueued before it
C9_Witness == lpc = "exited" /\ started /\ enqueued > 0 /\ BadReply

\* C10: a refused connect leads to the retry wait and from there to the next
\* attempt, however many refusals came before; an accepted connect leads to
\* the handshake (AGW) or to where the caller streams (KISS).
C10_RefusalIsRetried ==
    [][/\ (lpc = "connect" /\ lpc' # lpc /\ client_socket'.conn = 0)
            => lpc' = "retry_sleep"
       /\ (lpc = "retry_sleep" /\ lpc' # lpc) => lpc' = "connect"
       /\ (lpc = "connect" /\ client_socket'.conn > 0)
            => lpc' = IF lkiss THEN ReturnTo ELSE "handshake"
       /\ (lpc = "connect" /\ refusals = MaxRefusals)
            => (ENABLED ConnectRefused /\ ENABLED ConnectAccepted)]_vars

\* a KISS listener, reconnecting after a reset, sleeps after MaxRefusals
\* refused attempts before it tries again
C10_Witness ==
    /\ lkiss
    /\ started
    /\ lpc = "retry_sleep"
    /\ refusals = MaxRefusals
    /\ resets > 0

\* the handshake read loop reads b'': the peer closed before the reply was
\* complete
HandshakeZeroRead == lpc = "handshake" /\ sockbuf = <<>> /\ peer = "closed"

\* C11: when the peer closes the connection during the AGW handshake, at
\* startup or during a reconnect, the listener goes back to connecting.
C11_HandshakeResetRetried ==
    [][(HandshakeZeroRead /\ lpc' # lpc) => lpc' = "connect"]_vars

\* the control frames sent on connection c, in the order sent
SentOn(c) == SelectSeq(sent, LAMBDA e : e[1] = c)

\* C12: on every AGW connection the version request is the first frame sent
\* and the monitor request the second and last; the monitor request is sent
\* only with at least 36 reply bytes of that connection received and 'R' in
\* byte 4; a queued RawFrame holds bytes only of connections the monitor
\* request was sent on; a KISS listener sends nothing and has no handshake.
C12_HandshakeOrder ==
    /\ [](lkiss => (sent = <<>> /\ lpc # "handshake"))
    /\ [](\A c \in 1..(MaxResets + 1) :
            LET s == SentOn(c) IN
            /\ Len(s) <= 2
            /\ Len(s) >= 1 => s[1][2] = chr_R
            /\ Len(s) = 2 => s[2][2] = chr_m)
    /\ [][(Len(sent') > Len(sent) /\ sent'[Len(sent')][2] = chr_m) =>
            /\ Len(version_packet') >= HeaderLen
            /\ version_packet'[5][1] = chr_R
            /\ ConnsOf(version_packet') = {sent'[Len(sent')][1]}]_vars
    /\ [](~lkiss => \A k \in 1..Len(packet_queue) :
                      \A c \in ConnsOf(packet_queue[k].bytes) : MonitorSentOn(c))

\* an AGW listener has enqueued a frame received on its second connection,
\* after the handshake of the reconnect
C12_Witness ==
    /\ ~lkiss
    /\ MonitorSentOn(1) /\ MonitorSentOn(2)
    /\ \E k \in 1..Len(packet_queue) : 2 \in ConnsOf(packet_queue[k].bytes)

\* the streaming loop reads b'': the peer closed and nothing is left to read
StreamZeroRead == lpc = "stream" /\ sockbuf = <<>> /\ peer = "closed"

\* C13: a zero-length read in the streaming loop enqueues nothing and replaces
\* the socket by a fresh, unconnected one that is connected next; the listener
\* reads only from a socket connected after the last reset it has seen.
C13_ZeroReadIsReset ==
    /\ [][(StreamZeroRead /\ lpc' # lpc) =>
            /\ packet_queue' = packet_queue
            /\ enqueued' = enqueued
            /\ client_socket' = [conn |-> 0, blocking |-> TRUE]
            /\ lpc' = "connect"]_vars
    /\ [](lpc \in {"connect", "retry_sleep"} => client_socket.conn = 0)
    /\ [](lpc \in {"handshake", "stream"} =>
            client_socket.conn = IF peer = "closed" THEN resets ELSE resets + 1)

\* the listener streams on a second connection, made after a zero-length read
C13_Witness ==
    /\ started
    /\ lpc = "stream"
    /\ client_socket.conn = 2
    /\ sockbuf # <<>>

\* the number of maximal runs of bytes other than the delimiter in pb
KissRuns(pb) ==
    Cardinality({i \in 1..Len(pb) :
                   pb[i][1] # DELIM /\ (i = 1 \/ pb[i - 1][1] = DELIM)})

\* pb without its delimiters
NoDelim(pb) == SelectSeq(pb, LAMBDA b : b[1] # DELIM)

\* C14: in KISS mode no queued RawFrame is empty or holds a delimiter, and a
\* step that enqueues puts one RawFrame per non-empty delimiter-bound segment
\* of the bytes accumulated, in stream order.
C14_KissSegmentsEnqueued ==
    /\ [](lkiss => \A k \in 1..Len(packet_queue) :
                     /\ packet_queue[k].bytes # <<>>
                     /\ NoDelim(packet_queue[k].bytes) = packet_queue[k].bytes)
    /\ [][(lkiss /\ enqueued' > enqueued) =>
            LET pb == packet_bytes \o Take(sockbuf, Len(sockbuf) - Len(sockbuf'))
                new == SubSeq(packet_queue', Len(packet_queue) + 1,
                              Len(packet_queue'))
            IN /\ Len(new) = KissRuns(pb)
               /\ QueuedBytes(new) = NoDelim(pb)
               /\ \A i \in 1..Len(new) : new[i].n = enqueued + i]_vars

\* a short KISS frame and the frame sent after it were accumulated together
\* and enqueued as two RawFrames
C14_Witness ==
    /\ lkiss
    /\ Len(packet_queue) >= 2
    /\ wire[1].kind = "rx"
    /\ Wires(packet_queue[1].bytes) = {1}
    /\ Wires(packet_queue[2].bytes) = {2}

\* pb holds a whole KISS frame: two delimiters with bytes, and no delimiter,
\* between them
HoldsWholeKissFrame(pb) ==
    \E i, j \in 1..Len(pb) :
        /\ i + 1 < j
        /\ pb[i][1] = DELIM /\ pb[j][1] = DELIM
        /\ \A k \in (i + 1)..(j - 1) : pb[k][1] # DELIM

\* C15: between two reads the listener holds back fewer than 36 bytes in AGW
\* mode, and in KISS mode no frame whose closing delimiter it has read.
C15_EnqueuedWhenComplete ==
    /\ ~lkiss => Len(packet_bytes) < HeaderLen
    /\ lkiss => ~HoldsWholeKissFrame(packet_bytes)

\* C16: the listener runs in the protocol mode the exporter is configured for
\* and decodes in.
C16_OneModeGoverns == started => lkiss = kiss_mode

\* C17: a cycle goes to its sleep only with the queue drained; a frame is got
\* only from a non-empty queue; while the aggregator is between the start of a
\* cycle and its sleep the listener does not run, so nothing is enqueued.
C17_DrainsAllWithoutWaiting ==
    /\ [][(apc # "sleep" /\ apc' = "sleep") => packet_queue = <<>>]_vars
    /\ [][Len(taken') > Len(taken) => packet_queue # <<>>]_vars
    /\ [][(apc \in {"drain", "summary"}) =>
            (UNCHANGED <<lpc, packet_bytes, client_socket, enqueued>>)]_vars

\* C18: metric_updater never ends by an exception: a cycle, whatever raised in
\* it, ends in the sleep, and from the sleep the next cycle starts as soon as
\* the timer has fired and the event loop runs the task.
C18_SummaryErrorNotFatal ==
    /\ [](apc \in {"none", "ready", "drain", "summary", "sleep"})
    /\ [][(apc \in {"drain", "summary"} /\ apc' \notin {"drain", "summary"})
            => apc' = "sleep"]_vars
    /\ []((apc = "sleep" /\ timer = 0 /\ ~ListenerHoldsLoop /\ lpc # "exited"
             /\ cycle < MaxCycles) => ENABLED CycleStart)

\* a cycle runs after one whose summary raised (packets and no location)
C18_Witness ==
    /\ location = None
    /\ apc = "drain"
    /\ \E i \in 1..Len(taken) : taken[i].ok /\ taken[i].cycle < cycle

\* C19: after a cycle that made no PacketInfo the four last-window gauges are
\* zero, with and without a location.
C19_EmptyCycleWritesZeros ==
    (apc = "sleep" /\ packets_to_summarize = <<>>) =>
        /\ metrics.PACKET_RX_RECENT = Some(0)
        /\ metrics.PACKET_TX_RECENT = Some(0)
        /\ metrics.MAX_DISTANCE_RECENT.Simplex = Some(0)
        /\ metrics.MAX_DISTANCE_RECENT.Digi = Some(0)

\* an empty cycle has ended after a cycle that counted a frame
C19_Witness ==
    /\ apc = "sleep"
    /\ packets_to_summarize = <<>>
    /\ location # None
    /\ \E i \in 1..Len(taken) : taken[i].ok /\ taken[i].cycle < cycle

\* the packets of the cycle that are received (tx FALSE) or transmitted and
\* have the path classification path
CountByPath(packets, tx, path) ==
    Cardinality({k \in 1..Len(packets) :
                   IsTx(packets[k].info) = tx /\ PathType(packets[k].info) = path})

\* the received packets of the cycle of frame type t
CountByFrame(packets, t) ==
    Cardinality({k \in 1..Len(packets) :
                   ~IsTx(packets[k].info) /\ packets[k].info.frame_type = t})

\* C20: after a cycle whose summary did not raise, the last-window gauges give
\* the received frames of the cycle by path and by frame type and the
\* transmitted frames by path.
C20_WindowCountsBrokenDown ==
    (apc = "sleep" /\ ~SummaryRaises(packets_to_summarize, location)) =>
        /\ metrics.PACKET_RX_RECENT_PATH # None
        /\ metrics.PACKET_RX_RECENT_FRAME # None
        /\ metrics.PACKET_TX_RECENT_PATH # None
        /\ \A path \in {"Simplex", "Digi"} :
             /\ metrics.PACKET_RX_RECENT_PATH[path]
                  = CountByPath(packets_to_summarize, FALSE, path)
             /\ metrics.PACKET_TX_RECENT_PATH[path]
                  = CountByPath(packets_to_summarize, TRUE, path)
        /\ \A k \in 1..Len(packets_to_summarize) :
             LET t == packets_to_summarize[k].info.frame_type IN
             ~IsTx(packets_to_summarize[k].info) =>
                 metrics.PACKET_RX_RECENT_FRAME[t]
                   = CountByFrame(packets_to_summarize, t)

\* the great-circle distances from the location to the received packets of
\* the list that have both coordinates and hops as asked
QualifyingDistances(simplex) ==
    {haversine_distance(location,
                        <<packets_to_summarize[k].info.lat_lon[1][1],
                          packets_to_summarize[k].info.lat_lon[2][1]>>) :
       k \in {j \in 1..Len(packets_to_summarize) :
                LET info == packets_to_summarize[j].info IN
                /\ info.frame_type # Some(chr_T)
                /\ info.lat_lon[1] # None /\ info.lat_lon[2] # None
                /\ (info.hops_count = 0) = simplex}}

\* v is the largest element of D, or 0 when D is empty
IsLargestOrZero(v, D) ==
    /\ D = {} => v = 0
    /\ D # {} => (v \in D /\ \A d \in D : d <= v)

\* C21: with a location configured, after a cycle the simplex range gauge is
\* the largest distance among the cycle's received frames with a position and
\* no hop, the digipeated range gauge the largest among those with hops, and
\* each is 0 when no frame qualifies.
C21_MaxRangeOfCycle ==
    (apc = "sleep" /\ location # None) =>
        /\ metrics.MAX_DISTANCE_RECENT.Simplex # None
        /\ metrics.MAX_DISTANCE_RECENT.Digi # None
        /\ IsLargestOrZero(metrics.MAX_DISTANCE_RECENT.Simplex[1],
                           QualifyingDistances(TRUE))
        /\ IsLargestOrZero(metrics.MAX_DISTANCE_RECENT.Digi[1],
                           QualifyingDistances(FALSE))

\* a cycle with two frames heard directly at different distances has ended
C21_Witness ==
    /\ apc = "sleep"
    /\ location # None
    /\ Cardinality(QualifyingDistances(TRUE)) = 2
    /\ metrics.MAX_DISTANCE_RECENT.Digi = Some(0)

\* a step of the drain loop that has processed a frame without an exception
FrameProcessed == Len(packets_to_summarize') = Len(packets_to_summarize) + 1

\* the PacketInfo of the frame that step processed
ProcessedInfo == packets_to_summarize'[Len(packets_to_summarize')].info

\* the step appends one update with path label digi or 'Simplex' to the
\* transmit counter for a 'T' frame and to the receive counter otherwise
CountedOnce(digi) ==
    LET info == ProcessedInfo
        label == IF info.hops_count = 0 THEN "Simplex" ELSE digi
    IN IF info.frame_type = Some(chr_T)
       THEN /\ metrics'.PACKET_TX = Append(metrics.PACKET_TX, [path |-> label])
            /\ metrics'.PACKET_RX = metrics.PACKET_RX
       ELSE /\ Len(metrics'.PACKET_RX) = Len(metrics.PACKET_RX) + 1
            /\ SubSeq(metrics'.PACKET_RX, 1, Len(metrics.PACKET_RX))
                 = metrics.PACKET_RX
            /\ metrics'.PACKET_RX[Len(metrics'.PACKET_RX)].path = label
            /\ metrics'.PACKET_TX = metrics.PACKET_TX

\* C22 as stated: every processed frame increments exactly one counter by
\* one, the transmit counter if and only if frame_type is 'T', with the path
\* label 'Simplex' if hop_count is 0 and 'Digipeated' otherwise.
C22_CountedOnceDigipeated == [][FrameProcessed => CountedOnce("Digipeated")]_vars

\* C22, amended: the same with the path label 'Digi' for hop_count > 0; and no
\* other step changes a counter.
C22_CountedOnceDigi ==
    [][/\ FrameProcessed => CountedOnce("Digi")
       /\ ~FrameProcessed => /\ metrics'.PACKET_RX = metrics.PACKET_RX
                             /\ metrics'.PACKET_TX = metrics.PACKET_TX]_vars

\* a frame heard through a digipeater and a transmitted frame were counted
C22_Witness ==
    /\ Len(metrics.PACKET_TX) = 1
    /\ Len(metrics.PACKET_RX) = 1
    /\ metrics.PACKET_RX[1].path = "Digi"

\* C23: every processed frame has its payload size recorded, in the receive
\* size histogram for a received frame and in the transmit size histogram for
\* a transmitted one.
C23_SizeRecorded ==
    /\ Len(metrics.RX_PACKET_SIZE) = Len(metrics.PACKET_RX)
    /\ Len(metrics.TX_PACKET_SIZE) = Len(metrics.PACKET_TX)

\* the step records distance d of the processed frame where the claim says:
\* in the distance summary if the frame counts (counts) and both positions
\* are known, in the simplex-only summary if moreover there is no hop
DistanceRecorded(counts) ==
    LET info == ProcessedInfo
        known == /\ info.lat_lon[1] # None /\ info.lat_lon[2] # None
                 /\ location # None
        d == haversine_distance(location,
                                <<info.lat_lon[1][1], info.lat_lon[2][1]>>)
    IN IF counts /\ known
       THEN /\ metrics'.PACKET_DISTANCE = Append(metrics.PACKET_DISTANCE, d)
            /\ metrics'.RF_PACKET_DISTANCE =
                 IF info.hops_count = 0
                 THEN Append(metrics.RF_PACKET_DISTANCE, d)
                 ELSE metrics.RF_PACKET_DISTANCE
       ELSE /\ metrics'.PACKET_DISTANCE = metrics.PACKET_DISTANCE
            /\ metrics'.RF_PACKET_DISTANCE = metrics.RF_PACKET_DISTANCE

\* C24 as stated: for every processed frame a distance is recorded if and only
\* if both positions are known, and in the simplex-only summary if and only if
\* moreover hop_count is 0.
C24_DistanceOfEveryFrame == [][FrameProcessed => DistanceRecorded(TRUE)]_vars

\* C24, amended: that holds for the processed frames that are received ones
\* (frame_type other than 'T'); a transmitted frame, and every other step,
\* changes no distance summary.
C24_DistanceOfReceivedFrame ==
    [][/\ FrameProcessed =>
            DistanceRecorded(ProcessedInfo.frame_type # Some(chr_T))
       /\ ~FrameProcessed =>
            /\ metrics'.PACKET_DISTANCE = metrics.PACKET_DISTANCE
            /\ metrics'.RF_PACKET_DISTANCE = metrics.RF_PACKET_DISTANCE]_vars

\* a frame heard directly and one heard through a digipeater, both with a
\* position, were processed with a location configured
C24_Witness ==
    /\ location # None
    /\ Len(metrics.PACKET_DISTANCE) = 2
    /\ Len(metrics.RF_PACKET_DISTANCE) = 1

\* ---------------------------------------------------------------- C28
\* both AGW decoders have been applied to raw_packet
Decoded == decoded # <<>> /\ ~decoded[1].kiss

\* C28: an AGW input shorter than the 36-byte header never makes a decoder
\* raise; each returns frame_type 'Unknown' and, where the decoder has
\* defaults, every other field at its default.
C28_ShortInputIsUnknown ==
    (Decoded /\ Len(raw_packet) < HeaderLen) =>
        /\ decoded[1].exporter.raised = ""
        /\ decoded[1].exporter.info.frame_type = Unknown
        /\ decoded[1].parser.raised = ""
        /\ decoded[1].parser.info = PacketInfoDefaults

\* ---------------------------------------------------------------- C29
\* C29: an AGW input of at least 36 bytes never makes a decoder raise,
\* whatever its header and payload bytes.
C29_FullLengthNeverRaises ==
    (Decoded /\ Len(raw_packet) >= HeaderLen) =>
        /\ decoded[1].exporter.raised = ""
        /\ decoded[1].parser.raised = ""

\* ---------------------------------------------------------------- C30
\* the payload text of raw_packet
PayloadText == DecodeReplace(strip0(Slice(raw_packet, HeaderLen, Len(raw_packet))))

\* HH:MM:SS at position i of s with the hour in 00..23
WellFormedTimeAt(s, i) ==
    /\ TimeAt(s, i)
    /\ DigitsValue(SubSeq(s, i, i + 1)) \in 0..23

\* the hour, minute and second of the token at position i of s
TokenAt(s, i) ==
    <<DigitsValue(SubSeq(s, i, i + 1)), DigitsValue(SubSeq(s, i + 3, i + 4)),
      DigitsValue(SubSeq(s, i + 6, i + 7))>>

\* C30: for a frame of at least 36 bytes whose payload text holds a
\* well-formed HH:MM:SS token, each decoder returns the timestamp of the first
\* such token; when the text holds no token at all, each decoder returns with
\* the timestamp unset.
C30_TimestampIsFirstToken ==
    (Decoded /\ Len(raw_packet) >= HeaderLen) =>
        LET s == PayloadText
            W == {i \in 1..Len(s) : WellFormedTimeAt(s, i)}
        IN /\ W # {} =>
                /\ decoded[1].exporter.raised = ""
                /\ decoded[1].exporter.info.timestamp = Some(TokenAt(s, MinOf(W)))
                /\ decoded[1].parser.raised = ""
                /\ decoded[1].parser.info.timestamp = Some(TokenAt(s, MinOf(W)))
           /\ TimeSearch(s) = None =>
                /\ decoded[1].exporter.raised = ""
                /\ decoded[1].exporter.info.timestamp = None
                /\ decoded[1].parser.raised = ""
                /\ decoded[1].parser.info.timestamp = PacketInfoDefaults.timestamp

\* ---------------------------------------------------------------- C25
\* metric_updater is inside a cycle, between its start and its sleep
InCycle == apc \in {"drain", "summary"}

\* the cycle that ends took longer than stats_interval
Overrun == wait_seconds # None /\ wait_seconds[1] < 0

\* C25: the cycle ends in a sleep that lasts to cycle start + stats_interval:
\* the timer is what is left of the interval and the next cycle starts only
\* when it has run out.  After an overrun the timer is zero, never negative,
\* the next cycle can start at once, and metric_updater has still given up the
\* event loop.
C25_SleepsToEndOfInterval ==
    /\ [](timer >= 0)
    /\ [][(InCycle /\ ~InCycle') =>
            /\ apc' = "sleep"
            /\ ~AggregatorHoldsLoop'
            /\ wait_seconds' # None
            /\ timer' = IF wait_seconds'[1] > 0 THEN wait_seconds'[1] ELSE 0]_vars
    /\ [][(apc = "sleep" /\ apc' = "sleep") =>
            (timer' \in {timer, timer - 1} /\ wait_seconds' = wait_seconds)]_vars
    /\ [][(apc = "sleep" /\ apc' # "sleep") => (timer = 0 /\ apc' = "drain")]_vars
    /\ []((apc = "sleep" /\ Overrun /\ ~ListenerHoldsLoop /\ lpc # "exited"
            /\ cycle < MaxCycles) => ENABLED CycleStart)

\* a later cycle has overrun and metric_updater is in the sleep that follows
C25_Witness == apc = "sleep" /\ Overrun /\ cycle >= 2 /\ timer = 0

\* ---------------------------------------------------------------- C26
\* what a completed stop() leaves: both tasks cancelled and ended, the socket
\* closed, the endpoint stopped
Stopped ==
    /\ apc = "cancelled"
    /\ lpc = "cancelled"
    /\ ~metrics_task
    /\ ~listener_task
    /\ socket_closed
    /\ server = "stopped"

\* C26: stop() called after start() never ends by an exception, in whatever
\* state the two tasks are, and when it has run to its end both tasks are
\* cancelled and ended, the socket is closed and the endpoint is stopped.
C26_StopCompletes ==
    /\ stop_pc # "raised"
    /\ stop_pc = "done" => Stopped

\* ---------------------------------------------------------------- C27
\* C27: once a stop() has run to its end, a further stop() raises nothing and
\* changes nothing: there is still no task, the socket is closed and the
\* endpoint is stopped.
C27_SecondStopHarmless ==
    /\ [](stops >= 1 => (stop_pc = "done" /\ Stopped))
    /\ [][stops >= 1 => UNCHANGED <<apc, lpc, metrics_task, listener_task,
                                    socket_closed, server, client_socket,
                                    packet_queue, metrics>>]_vars

\* a second stop() has run to its end
C27_Witness == stops = 2 /\ stop_pc = "done"

\* ---------------------------------------------------------------- C31
\* TNCExporter.parse_packet_agw has returned a PacketInfo for raw_packet
AgwReturned == Decoded /\ decoded[1].exporter.raised = ""

\* the payload of raw_packet is ASCII text
PayloadIsText == IsAscii(strip0(Slice(raw_packet, HeaderLen, Len(raw_packet))))

\* the aliases that are no digipeaters
Aliases ==
    { <<82, 69, 76, 65, 89>>, <<69, 67, 72, 79>>, <<84, 82, 65, 67, 69>>, <<71, 65, 84, 69>>,
      <<66, 69, 65, 67, 79, 78>>, <<65, 82, 73, 83, 83>>, <<82, 70, 79, 78, 76, 89>>, <<78, 79, 71, 65, 84, 69>> }

\* WIDEn or WIDEn-n
IsWideToken(e) ==
    /\ Len(e) \in {5, 7}
    /\ SubSeq(e, 1, 4) = <<87, 73, 68, 69>>
    /\ IsDigit(e[5])
    /\ Len(e) = 7 => (e[6] = 45 /\ IsDigit(e[7]))

\* the entries of a comma-separated list that are neither alias nor WIDE token
RealHops(list) ==
    SelectSeq(SplitVals(list, 44), LAMBDA e : e \notin Aliases /\ ~IsWideToken(e))

\* C31: for an AGW frame whose text holds 'Via <list> <', hops_path is the
\* entries of the list, in their order, that are neither an alias nor a WIDE
\* token; 'N6EX-4' gives that one hop, 'RCHFLD,SHEPRD,WIDE2' the first two,
\* a list of aliases and WIDE tokens none, and so does a text without Via.
C31_HopPathIsRealHops ==
    (AgwReturned /\ PayloadIsText) =>
        LET info == decoded[1].exporter.info
            list == HopsString(PayloadText)
        IN /\ list = None => (info.hops_path = <<>> /\ info.hops_count = 0)
           /\ list # None => info.hops_path = RealHops(list[1])
           /\ list = Some(<<78, 54, 69, 88, 45, 52>>) => info.hops_path = << <<78, 54, 69, 88, 45, 52>> >>
           /\ list = Some(<<82, 67, 72, 70, 76, 68, 44, 83, 72, 69, 80, 82, 68, 44, 87, 73, 68, 69, 50>>) =>
                  info.hops_path = << <<82, 67, 72, 70, 76, 68>>, <<83, 72, 69, 80, 82, 68>> >>
           /\ list = Some(<<87, 73, 68, 69, 50, 45, 50, 44, 82, 69, 76, 65, 89>>) =>
                  (info.hops_path = <<>> /\ info.hops_count = 0)

\* ---------------------------------------------------------------- C32
\* the text s holds the text e
Contains(s, e) ==
    \E i \in 1..(Len(s) - Len(e) + 1) : SubSeq(s, i, i + Len(e) - 1) = e

\* C32: a plaintext position decodes to its raw values divided by 100, in
\* units of 1e-4 degree the digits read as one integer, negative for S and W:
\* 3419.82N111836.06W is (34.1982, -118.3606), 2254.81S/04826.34W is
\* (-22.5481, -48.2634), 5354.08N/01124.80E is (53.5408, 11.2480) and
\* 3735.51NS11251.96W is (37.3551, -112.5196).
C32_PlaintextPosition ==
    (AgwReturned /\ PayloadIsText) =>
        LET lat_lon == decoded[1].exporter.info.lat_lon IN
        /\ Contains(PayloadText, <<51, 52, 49, 57, 46, 56, 50, 78, 49, 49, 49, 56, 51, 54, 46, 48, 54, 87>>) =>
               lat_lon = <<Some(341982), Some(0 - 1183606)>>
        /\ Contains(PayloadText, <<50, 50, 53, 52, 46, 56, 49, 83, 47, 48, 52, 56, 50, 54, 46, 51, 52, 87>>) =>
               lat_lon = <<Some(0 - 225481), Some(0 - 482634)>>
        /\ Contains(PayloadText, <<53, 51, 53, 52, 46, 48, 56, 78, 47, 48, 49, 49, 50, 52, 46, 56, 48, 69>>) =>
               lat_lon = <<Some(535408), Some(112480)>>
        /\ Contains(PayloadText, <<51, 55, 51, 53, 46, 53, 49, 78, 83, 49, 49, 50, 53, 49, 46, 57, 54, 87>>) =>
               lat_lon = <<Some(373551), Some(0 - 1125196)>>

\* a southern and western position has been decoded
C32_Witness ==
    /\ AgwReturned
    /\ Contains(PayloadText, <<50, 50, 53, 52, 46, 56, 49, 83, 47, 48, 52, 56, 50, 54, 46, 51, 52, 87>>)
    /\ decoded[1].exporter.info.lat_lon[1] = Some(0 - 225481)

\* ---------------------------------------------------------------- C33
\* (None, None), or a latitude within 90 and a longitude within 180 degrees
LatLonValid(lat_lon) ==
    \/ lat_lon = <<None, None>>
    \/ /\ lat_lon[1] # None
       /\ lat_lon[2] # None
       /\ lat_lon[1][1] \in (0 - 900000)..900000
       /\ lat_lon[2][1] \in (0 - 1800000)..1800000

\* C33: the lat_lon of every PacketInfo a decoder returns is (None, None) or a
\* pair of a latitude in [-90, 90] and a longitude in [-180, 180].
C33_LatLonInRange ==
    decoded # <<>> =>
        /\ decoded[1].exporter.raised = "" =>
               LatLonValid(decoded[1].exporter.info.lat_lon)
        /\ decoded[1].parser.raised = "" =>
               LatLonValid(decoded[1].parser.info.lat_lon)

\* ---------------------------------------------------------------- C34
\* C34: in every PacketInfo a decoder returns, for AGW and for KISS, for
\* well-formed and for malformed input, hops_count is the length of hops_path.
C34_HopCountIsLength ==
    decoded # <<>> =>
        /\ decoded[1].exporter.raised = "" =>
               decoded[1].exporter.info.hops_count
                   = Len(decoded[1].exporter.info.hops_path)
        /\ decoded[1].parser.raised = "" =>
               decoded[1].parser.info.hops_count
                   = Len(decoded[1].parser.info.hops_path)

\* both AGW decoders have returned a path of two hops
C34_Witness ==
    /\ AgwReturned
    /\ decoded[1].parser.raised = ""
    /\ Len(decoded[1].exporter.info.hops_path) = 2
    /\ Len(decoded[1].parser.info.hops_path) = 2

\* ---------------------------------------------------------------- C35
\* the bytes of the n-th RawFrame that was queued
QueuedFrame(n) == wire[n + 1].frame

\* a frame in its delimiters whose first byte after the delimiter is b
CommandIs(frame, b) ==
    /\ Len(frame) > 2
    /\ frame[1] = DELIM
    /\ frame[Len(frame)] = DELIM
    /\ frame[2] = b

\* the n-th RawFrame has been taken off the queue, decoded or not as ok says
Taken(n, ok) == \E i \in 1..Len(taken) : taken[i].n = n /\ taken[i].ok = ok

IsDataSegment(f) ==
    /\ f # <<>>
    /\ f[1] = 0
    /\ \A i \in 1..Len(f) : f[i] # DELIM
    /\ \E i \in 1..(Len(f) - 1) : f[i] = 3 /\ f[i + 1] = 240

\* C40: in KISS mode every queued RawFrame that is a segment between two
\* delimiters, starts with 00 and holds 03 f0 is decoded into a PacketInfo
\* by the cycle that takes it off the queue and is counted in that cycle.
C40_SegmentsAreDecoded ==
    kiss_mode =>
        \A i \in 1..Len(taken) :
            IsDataSegment(QueuedFrame(taken[i].n)) =>
                /\ taken[i].ok
                /\ (cycle = taken[i].cycle /\ apc \in {"drain", "summary"}) =>
                       \E k \in 1..Len(packets_to_summarize) :
                           packets_to_summarize[k].n = taken[i].n

\* ---------------------------------------------------------------- C37
\* C37: whenever the listener reads in its streaming loop, the socket it
\* reads from is non-blocking, be it the first socket or the socket of any
\* reconnect.
C37_StreamingSocketNonBlocking ==
    \A r \in 0..MaxResets :
        (lpc = "stream" /\ resets = r) => ~client_socket.blocking

\* ---------------------------------------------------------------- C38
\* the task of receive_packets is reconnecting after a reset of its stream
Reconnecting ==
    started /\ lpc \in {"connect", "retry_sleep", "handshake"}

\* C38: the listener has no terminal state but shutdown: after a reset during
\* streaming, with a TNC that accepts a connection in the end, the listener
\* streams again, unless the reply to its version request was not a valid one
\* (the exit of the handshake mismatch).
C38_ReturnsToStreaming ==
    [](Reconnecting => <>(lpc = "stream" \/ lpc = "exited"))

\* ---------------------------------------------------------------- C39
\* C39: at the end of a cycle that processed at least one frame, the gauges
\* of the last window hold the numbers of received and of transmitted frames
\* of that cycle, with and without a location.
C39_RecentCountsOfThisCycle ==
    (apc = "sleep" /\ packets_to_summarize # <<>>) =>
        /\ metrics.PACKET_RX_RECENT = Some(CountOf(packets_to_summarize, FALSE))
        /\ metrics.PACKET_TX_RECENT = Some(CountOf(packets_to_summarize, TRUE))

====
